---- MODULE Spec2Model ----
(***************************************************************************)
(* boolset: the analysis of boolset/analyzer.go as a state machine.        *)
(*                                                                         *)
(* One behaviour is one run of Analyze over one file: the walk visits the  *)
(* statements of the file in textual order (one action per node kind that  *)
(* has a handler), then the results are turned into diagnostics.  The      *)
(* statements are drawn from the type-correct Go statements over a small   *)
(* set of declared objects; the type checker's tables (Defs, Uses, Types)  *)
(* are carried by the syntax nodes themselves.                             *)
(*                                                                         *)
(* Beside the analyzer's own state the model keeps history variables that  *)
(* the analyzer does not have: the values the walked statements store when *)
(* they are executed as straight-line Go (val, writes), the specified      *)
(* truth latch applied to every write (orc), what the writes recorded for  *)
(* each map were (wlog), and the writes to locals of the last visit, as    *)
(* calls of recordVarAssignment (tracked) and as syntax (assigns).         *)
(***************************************************************************)
EXTENDS Naturals, Integers, Sequences, FiniteSets, TLC

VARIABLES
    results,       \* analyzer.results: object -> mapInfo (present = has an entry)
    boolValues,    \* analyzer.boolValues: object -> truthState
    diags,         \* the slice Analyze returns
    phase,         \* "decls", "body" while the file is inspected, "done" after Analyze returned
    pc,            \* number of statements visited so far
    declPos,       \* position of the declaring identifier of each declared object, NoPos before
    val,           \* history: value of each function-local boolean under execution
    straightLine,  \* history: the statements so far are straight-line code over locals
    orc,           \* history: the specified truth latch, fed with every write
    wlog,          \* history: per map, the writes recorded so far
    writes,        \* history: the map writes recorded by the last visit
    tracked,       \* history: the recordVarAssignment calls of the last visit
    assigns,       \* history: the constant and call writes to locals of the last visit
    keyT,          \* input: the key type K of the local map's type map[K]bool
    file,          \* input: the statements of the file when it is given in advance,
                   \* empty when the statements are chosen as the walk goes
    prev,          \* history: the diagnostics of the earlier runs over the same file
    args,          \* input: which arguments of Analyze are there: the package (or
                   \* nil), whether the list of files has a file, and the type
                   \* info ("full", "empty": every table empty, or nil)
    qexpr,         \* input: the expression isDefinitelyTrue is called with
    qret,          \* what that call returned: <<>> before it returns, then <<b>>
    stack,         \* the stack of inspectFile: the nodes, each named by its path
                   \* of child indices from the file
    walk,          \* the recursion of ast.Inspect: a frame per node being walked,
                   \* with the index of the child it walks next
    seen,          \* history: the nodes the callback was called with, in order
    osArgs,        \* input: the command line of boolsetlint after the flags
    targets,       \* what expandTargets returned to main: the paths to inspect
    cmd            \* the run of main: where it is, its index into targets, its
                   \* hadError and totalIssues, the exit status (-1 while it
                   \* runs), and the history: the targets inspected, the sum
                   \* of the counts returned, the first target that returned
                   \* an error, whether expandTargets failed, whether every
                   \* write succeeded

\* the variables of the single calls, which a walk leaves alone
query == <<qexpr, qret>>

\* the variables of the walk node by node
inspect == <<stack, walk, seen>>

\* the variables of the command, which the analyzer leaves alone
cli == <<osArgs, targets, cmd>>

vars == <<results, boolValues, diags, phase, pc, declPos, val, straightLine,
          orc, wlog, writes, tracked, assigns, keyT, file, prev, args, query, inspect,
          cli>>

----------------------------------------------------------------------------
(* Bounds *)

MaxStmts == 3      \* statements visited by one walk
MaxParens == 1     \* nesting of parentheses around a value expression
MaxTypeDepth == 1  \* pointer and array constructors around a key type
MaxRuns == 2       \* calls of Analyze over the same file
MaxArgs == 2       \* arguments on the command line of boolsetlint
MaxIssues == 2     \* diagnostics one call of inspectPath reports

----------------------------------------------------------------------------
(* Program constants *)

NoPos == 0

truthUnknown == 0
truthAlwaysTrue == 1
truthNotAlwaysTrue == 2

Null == "nil"

TokAssign == "="
TokDefine == ":="

----------------------------------------------------------------------------
(* The objects of the analysed package (types.Object identities).          *)
(*   flag, alias  function-local bool variables                            *)
(*   param        bool parameter of the function                           *)
(*   gflag        package-scope bool variable                              *)
(*   fld          bool field of a struct                                   *)
(*   ctrue        package-scope constant, value true                       *)
(*   set          function-local map[K]bool, K the key type of the run     *)
(*   gset         package-scope variable of type stringSet                 *)
(*                (type stringSet map[string]bool)                         *)
(* and, for the walks over references and non-qualifying targets,          *)
(*   set2         map[K]bool parameter of a second function, also named    *)
(*                set                                                      *)
(*   flag2        bool local to the second function, also named flag       *)
(*   fset         field of type map[string]bool of a struct type; s and t  *)
(*                are two variables of that struct type                    *)
(*   imap         function-local map[string]int                            *)
(*   slc          function-local []bool                                    *)
(*   mm           function-local map[string]map[string]bool                *)
(*   ext          variable Set of type map[string]bool of the imported     *)
(*                package q                                                *)

BoolLocals == {"flag", "alias"}
BoolVars == {"flag", "alias", "param", "gflag", "fld", "flag2"}
MapObjs == {"set", "gset"}
RefMaps == {"set2", "fset"}
OtherObjs == {"imap", "slc", "mm", "ext"}
Objects == BoolVars \cup {"ctrue"} \cup MapObjs \cup RefMaps \cup OtherObjs

\* the name an object is declared by
ObjName(o) ==
    CASE o = "set2" -> "set"
      [] o = "flag2" -> "flag"
      [] o = "ext" -> "Set"
      [] OTHER -> o

\* objects whose declaration is a statement of the walk
Declarable == {"flag", "alias", "gflag", "ctrue", "set", "gset", "flag2"}

\* objects that the history follows with the specified latch
OrcVars == {"flag", "alias", "gflag"}

AnalyzedPkg == "p"

\* packages are identified by their import path; Name() is the last element
PkgName(pkg) == IF pkg = "math/rand" THEN "rand" ELSE pkg

ObjPkg(o) == IF o = "ext" THEN "q" ELSE AnalyzedPkg

IsConst(o) == o = "ctrue"

IsVar(o) == o \in BoolVars \cup MapObjs \cup RefMaps \cup OtherObjs

ConstVal(o) == o = "ctrue"

ObjType(o) ==
    CASE o \in {"set", "set2"} -> "map[K]bool"
      [] o = "gset" -> "stringSet"
      [] o \in {"fset", "ext"} -> "map[string]bool"
      [] o = "imap" -> "map[string]int"
      [] o = "slc" -> "[]bool"
      [] o = "mm" -> "map[string]map[string]bool"
      [] OTHER -> "bool"

Underlying(t) == IF t = "stringSet" THEN "map[string]bool" ELSE t

IsMapType(t) ==
    t \in {"map[K]bool", "map[string]bool", "map[string]int",
           "map[string]map[string]bool"}

MapElem(t) ==
    CASE t = "map[string]int" -> "int"
      [] t = "map[string]map[string]bool" -> "map[string]bool"
      [] OTHER -> "bool"

\* Key types are structured, for they are what a diagnostic renders: a basic
\* type, a named type of some package (none for the universe), a pointer or
\* an array.
Basic(n) == [kind |-> "basic", name |-> n]

Named(pkg, n) == [kind |-> "named", pkg |-> pkg, name |-> n]

Pointer(t) == [kind |-> "pointer", elem |-> t]

Array(t) == [kind |-> "array", elem |-> t]

RECURSIVE TypesOfDepth(_)
TypesOfDepth(d) ==
    IF d = 0
    THEN {Basic("string"), Basic("int"), Named(Null, "error"),
          Named(AnalyzedPkg, "Key"), Named("time", "Month"),
          Named("math/rand", "Source")}
    ELSE TypesOfDepth(d - 1)
         \cup {Pointer(t) : t \in TypesOfDepth(d - 1)}
         \cup {Array(t) : t \in TypesOfDepth(d - 1)}

KeyTypes == TypesOfDepth(MaxTypeDepth)

MapKey(t) == IF t = "map[K]bool" THEN keyT ELSE Basic("string")

IsField(o) == o \in {"fld", "fset"}

\* v.Parent(): the scope that holds the object; fields have none
Parent(o) ==
    CASE o \in {"flag", "alias", "param", "set", "imap", "slc", "mm"} -> "func"
      [] o \in {"set2", "flag2"} -> "func2"
      [] o \in {"gflag", "ctrue", "gset", "ext"} -> "pkg"
      [] OTHER -> Null

PkgScope(p) == "pkg"

\* position of the k-th visited statement (i = 0), of its i-th left-hand
\* side (1 <= i <= 2) and of its j-th composite-literal value (4 + j)
PosOf(k, i) == 10 * (k + 1) + i

\* obj.Pos(): the declaring identifier.  The parameter is declared in the
\* function signature and the field in the struct type, both before the
\* first visited statement; go/types gives every object declared in source
\* a valid position, parameters included.  Only the position of a map is
\* ever read for more than its validity, and only to be reported: dp keeps
\* position 1 for every other declared object and, for the maps, offsets
\* in the order of their declarations (the package block precedes the
\* function body) that differ from the position of every statement.
DeclPosOf(o) ==
    IF o = "gset" THEN 2 ELSE IF o = "set" THEN 3 ELSE IF o = "set2" THEN 4 ELSE 1

ObjPos(dp, o) ==
    CASE o \in Declarable -> dp[o]
      [] OTHER -> DeclPosOf(o)

----------------------------------------------------------------------------
(* Syntax nodes.  Every expression node is a record of the same shape:     *)
(*   kind    "lit"     a boolean expression the type checker folded to the *)
(*                     constant val (true, false, 1 < 2, !false)           *)
(*           "ident"   an identifier resolved to obj; def says whether the *)
(*                     type checker recorded it in Defs (def) or in Uses   *)
(*           "blank"   the identifier _                                    *)
(*           "call"    a function call                                     *)
(*           "sel"     a selector x.f: the field obj selected on the       *)
(*                     variable via, which has a Selections entry, or,     *)
(*                     via being "pkg", the qualified identifier q.obj,    *)
(*                     which has none                                      *)
(*           "index"   X[k], X being the identifier obj wrapped as via     *)
(*                     says: "ident" X, "paren" X in parentheses,          *)
(*                     "star" a dereferenced pointer to obj,               *)
(*                     "s.", "t." the field obj selected on s or on t,     *)
(*                     "(s.)" the same in parentheses, "pkg." the          *)
(*                     qualified identifier, "index" obj indexed once      *)
(*                     already                                             *)
(*           "complit" a composite literal of type typ with the key/value  *)
(*                     values elts                                         *)
(*   parens  number of ParenExpr nodes wrapped around the expression       *)

NilExpr == [kind |-> Null, obj |-> Null, def |-> FALSE, val |-> FALSE,
            parens |-> 0, via |-> Null, typ |-> Null, elts |-> <<>>]

Lit(b) == [NilExpr EXCEPT !.kind = "lit", !.val = b, !.typ = "bool"]

Ident(o, d) == [NilExpr EXCEPT !.kind = "ident", !.obj = o, !.def = d, !.typ = ObjType(o)]

Blank == [NilExpr EXCEPT !.kind = "blank"]

Call(t) == [NilExpr EXCEPT !.kind = "call", !.typ = t]

\* the call f(es) of a function that takes the arguments es
CallWith(t, es) == [Call(t) EXCEPT !.elts = es]

\* a constant expression that is no identifier, such as !false or 1 < 2
Fold(b) == [NilExpr EXCEPT !.kind = "fold", !.val = b, !.typ = "bool"]

Sel(o) == [NilExpr EXCEPT !.kind = "sel", !.obj = o, !.typ = ObjType(o)]

SelOn(x, o) == [Sel(o) EXCEPT !.via = x]

Index(o, v) == [NilExpr EXCEPT !.kind = "index", !.obj = o, !.via = v, !.typ = "bool"]

CompLit(t, es) == [NilExpr EXCEPT !.kind = "complit", !.typ = t, !.elts = es]

Paren(e) == [e EXCEPT !.parens = @ + 1]

\* The tables of the type info.  A lookup in a table that is empty finds
\* nothing, whatever the node.
HasTables == args.info = "full"

\* info.Defs[ident], info.Uses[ident]
Defs(e) ==
    IF HasTables /\ e.kind = "ident" /\ e.parens = 0 /\ e.def THEN e.obj ELSE Null

Uses(e) ==
    IF HasTables /\ e.kind = "ident" /\ e.parens = 0 /\ ~e.def THEN e.obj ELSE Null

\* info.Selections[sel].Obj()
Selections(e) ==
    IF HasTables /\ e.kind = "sel" /\ e.parens = 0 /\ e.via # "pkg" THEN e.obj
    ELSE Null

\* info.Uses[sel.Sel]: the identifier after the dot
UsesSel(e) == IF HasTables /\ e.kind = "sel" /\ e.parens = 0 THEN e.obj ELSE Null

\* info.Types[expr].Value as <<v>>, or <<>> when the expression is no constant
TypesValue(e) ==
    CASE ~HasTables -> <<>>
      [] e.kind \in {"lit", "fold"} -> <<e.val>>
      [] e.kind = "ident" /\ e.obj # Null /\ IsConst(e.obj) -> <<ConstVal(e.obj)>>
      [] OTHER -> <<>>

\* info.Types[lit].Type
TypesType(e) == IF HasTables THEN e.typ ELSE Null

----------------------------------------------------------------------------
(* The analyzer.  Its mutable state is threaded through the handlers as    *)
(*   st = [results, boolValues, calls]                                     *)
(* where calls is the trace of the recordAssignment and                    *)
(* recordVarAssignment calls made so far in this visit.                    *)

NoInfo == [present |-> FALSE, onlyTrue |-> FALSE, trueCount |-> 0,
           pos |-> NoPos, keyType |-> <<>>]

isBool(t) == Underlying(t) = "bool"

exprAt(list, length, index) ==
    IF index <= length THEN list[index]
    ELSE IF length = 1 THEN list[1]
    ELSE NilExpr

\* the qualifier made by makeQualifier(a.pkg): "" leaves the name bare
qualifierByPath(other) ==
    IF other = AnalyzedPkg THEN ""
    ELSE IF other = Null THEN ""
    ELSE other

qualifier(other) ==
    IF other = AnalyzedPkg THEN ""
    ELSE IF other = Null THEN ""
    ELSE PkgName(other)

\* types.TypeString(t, a.qualifier), as the sequence of the pieces written
RECURSIVE TypeString(_)
TypeString(t) ==
    CASE t.kind = "basic" -> <<t.name>>
      [] t.kind = "named" ->
            (IF qualifier(t.pkg) = "" THEN <<>> ELSE <<qualifier(t.pkg), ".">>)
            \o <<t.name>>
      [] t.kind = "pointer" -> <<"*">> \o TypeString(t.elem)
      [] t.kind = "array" -> <<"[2]">> \o TypeString(t.elem)

isLocalVarSkipsScope(dp, v) ==
    IF v = Null THEN FALSE
    ELSE IF IsField(v) THEN FALSE
    ELSE IF ObjPos(dp, v) = NoPos THEN FALSE
    ELSE TRUE

isLocalVar(dp, v) ==
    IF v = Null THEN FALSE
    ELSE IF IsField(v) THEN FALSE
    ELSE IF Parent(v) = Null THEN FALSE
    ELSE IF ObjPkg(v) # Null /\ Parent(v) = PkgScope(ObjPkg(v)) THEN FALSE
    ELSE IF ObjPos(dp, v) = NoPos THEN FALSE
    ELSE TRUE

objectIsDefinitelyTrue(bv, obj) ==
    CASE IsConst(obj) -> ConstVal(obj)
      [] IsVar(obj) -> bv[obj] = truthAlwaysTrue
      [] OTHER -> FALSE

isDefinitelyTrueNoParen(bv, e) ==
    IF e = NilExpr THEN FALSE
    ELSE IF TypesValue(e) # <<>> THEN TypesValue(e)[1]
    ELSE IF e.parens > 0 THEN FALSE
    ELSE IF e.kind = "ident" THEN
        IF Uses(e) # Null THEN objectIsDefinitelyTrue(bv, Uses(e))
        ELSE IF Defs(e) # Null THEN objectIsDefinitelyTrue(bv, Defs(e))
        ELSE FALSE
    ELSE FALSE

RECURSIVE isDefinitelyTrue(_, _)
isDefinitelyTrue(bv, e) ==
    IF e = NilExpr THEN FALSE
    ELSE IF TypesValue(e) # <<>> THEN TypesValue(e)[1]
    ELSE IF e.parens > 0 THEN isDefinitelyTrue(bv, [e EXCEPT !.parens = @ - 1])
    ELSE IF e.kind = "ident" THEN
        IF Uses(e) # Null THEN objectIsDefinitelyTrue(bv, Uses(e))
        ELSE IF Defs(e) # Null THEN objectIsDefinitelyTrue(bv, Defs(e))
        ELSE FALSE
    ELSE FALSE

\* where a written value comes from: the variable read, or the kind of expression
Src(e) == IF e.kind = "ident" /\ e.obj \in BoolVars THEN e.obj
          ELSE IF e.kind = "sel" THEN "sel"
          ELSE IF TypesValue(e) # <<>> THEN "const"
          ELSE "other"

\* the truth state, when e is evaluated, of the variable e reads
SrcState(bv, e) == IF Src(e) \in BoolVars THEN bv[e.obj] ELSE truthUnknown

VarCall(bv, obj, rhs, proved, before, after) ==
    [op |-> "recordVarAssignment", obj |-> obj, expr |-> rhs, proved |-> proved,
     srcState |-> SrcState(bv, rhs), before |-> before, after |-> after, pos |-> NoPos]

MapCall(bv, obj, rhs, proved, pos) ==
    [op |-> "recordAssignment", obj |-> obj, expr |-> rhs, proved |-> proved,
     srcState |-> SrcState(bv, rhs), before |-> 0, after |-> 0, pos |-> pos]

recordVarAssignmentNoLatch(dp, st, obj, rhs) ==
    IF ~IsVar(obj) THEN st
    ELSE IF ~isBool(ObjType(obj)) THEN st
    ELSE IF ~isLocalVar(dp, obj) THEN st
    ELSE LET proved == isDefinitelyTrue(st.boolValues, rhs)
             after == IF proved THEN truthAlwaysTrue ELSE truthNotAlwaysTrue
         IN [st EXCEPT !.boolValues[obj] = after,
                       !.calls = Append(@, VarCall(st.boolValues, obj, rhs, proved, st.boolValues[obj], after))]

recordVarAssignmentRevokes(dp, st, obj, rhs) ==
    IF ~IsVar(obj) THEN st
    ELSE IF ~isBool(ObjType(obj)) THEN st
    ELSE IF ~isLocalVar(dp, obj) THEN st
    ELSE LET proved == isDefinitelyTrue(st.boolValues, rhs)
             before == st.boolValues[obj]
             after == IF proved
                      THEN (IF before = truthUnknown THEN truthAlwaysTrue ELSE before)
                      ELSE truthNotAlwaysTrue
         IN [st EXCEPT !.boolValues[obj] = after,
                       !.results = [o \in Objects |->
                                       IF ~proved /\ st.results[o].present
                                       THEN [st.results[o] EXCEPT !.onlyTrue = FALSE]
                                       ELSE st.results[o]],
                       !.calls = Append(@, VarCall(st.boolValues, obj, rhs, proved, before, after))]

recordVarAssignment(dp, st, obj, rhs) ==
    IF ~IsVar(obj) THEN st
    ELSE IF ~isBool(ObjType(obj)) THEN st
    ELSE IF ~isLocalVar(dp, obj) THEN st
    ELSE LET proved == isDefinitelyTrue(st.boolValues, rhs)
             before == st.boolValues[obj]
             after == IF proved
                      THEN (IF before = truthUnknown THEN truthAlwaysTrue ELSE before)
                      ELSE truthNotAlwaysTrue
         IN [st EXCEPT !.boolValues[obj] = after,
                       !.calls = Append(@, VarCall(st.boolValues, obj, rhs, proved, before, after))]

trackVarAssignment(dp, st, lhs, rhs, tok) ==
    IF lhs.kind \notin {"ident", "blank"} \/ lhs.parens > 0 THEN st
    ELSE IF lhs.kind = "blank" THEN st
    ELSE LET first == IF tok = TokDefine THEN Defs(lhs) ELSE Uses(lhs)
             obj == IF first = Null THEN Defs(lhs) ELSE first
         IN IF obj = Null THEN st ELSE recordVarAssignment(dp, st, obj, rhs)

infoForIsNilAnyPkg(obj) ==
    \/ obj = Null
    \/ ObjType(obj) = Null
    \/ ~IsMapType(Underlying(ObjType(obj)))
    \/ ~isBool(MapElem(Underlying(ObjType(obj))))

\* infoFor returns nil (no record is looked up or created)
infoForIsNil(obj) ==
    \/ obj = Null
    \/ ObjPkg(obj) # Null /\ ObjPkg(obj) # AnalyzedPkg
    \/ ObjType(obj) = Null
    \/ ~IsMapType(Underlying(ObjType(obj)))
    \/ ~isBool(MapElem(Underlying(ObjType(obj))))

\* the registry after infoFor(obj): the cached record, or a fresh one
infoFor(dp, st, obj) ==
    IF infoForIsNil(obj) THEN st
    ELSE IF st.results[obj].present THEN st
    ELSE [st EXCEPT !.results[obj] =
             [present |-> TRUE, onlyTrue |-> TRUE, trueCount |-> 0,
              pos |-> ObjPos(dp, obj),
              keyType |-> TypeString(MapKey(Underlying(ObjType(obj))))]]

mapObjectDeref(expr) ==
    CASE expr.kind = "star" -> expr.obj
      [] expr.kind = "ident" -> IF Uses(expr) # Null THEN Uses(expr) ELSE Defs(expr)
      [] expr.kind = "sel" ->
            IF Selections(expr) # Null THEN Selections(expr) ELSE UsesSel(expr)
      [] OTHER -> Null

mapObjectNoParen(expr) ==
    CASE expr.parens > 0 -> Null
      [] expr.kind = "ident" -> IF Uses(expr) # Null THEN Uses(expr) ELSE Defs(expr)
      [] expr.kind = "sel" ->
            IF Selections(expr) # Null THEN Selections(expr) ELSE UsesSel(expr)
      [] OTHER -> Null

RECURSIVE mapObject(_)
mapObject(expr) ==
    CASE expr.parens > 0 -> mapObject([expr EXCEPT !.parens = @ - 1])
      [] expr.kind = "ident" -> IF Uses(expr) # Null THEN Uses(expr) ELSE Defs(expr)
      [] expr.kind = "sel" ->
            IF Selections(expr) # Null THEN Selections(expr) ELSE UsesSel(expr)
      [] OTHER -> Null

RECURSIVE objectOfAssignable(_)
objectOfAssignable(expr) ==
    CASE expr.parens > 0 -> objectOfAssignable([expr EXCEPT !.parens = @ - 1])
      [] expr.kind = "ident" -> IF Defs(expr) # Null THEN Defs(expr) ELSE Uses(expr)
      [] expr.kind = "sel" ->
            IF Selections(expr) # Null THEN Selections(expr) ELSE UsesSel(expr)
      [] OTHER -> Null

\* idx.X of the index expression lhs
IndexX(lhs) ==
    CASE lhs.via = "ident" -> Ident(lhs.obj, FALSE)
      [] lhs.via = "paren" -> Paren(Ident(lhs.obj, FALSE))
      [] lhs.via = "s." -> SelOn("s", lhs.obj)
      [] lhs.via = "t." -> SelOn("t", lhs.obj)
      [] lhs.via = "(s.)" -> Paren(SelOn("s", lhs.obj))
      [] lhs.via = "pkg." -> SelOn("pkg", lhs.obj)
      [] lhs.via = "index" ->
            [NilExpr EXCEPT !.kind = "index", !.obj = lhs.obj, !.via = "ident",
                            !.typ = MapElem(ObjType(lhs.obj))]
      [] OTHER -> [NilExpr EXCEPT !.kind = "star", !.obj = lhs.obj]

recordAssignmentResets(st, obj, rhs, pos) ==
    LET mi == st.results[obj]
        proved == isDefinitelyTrue(st.boolValues, rhs)
        mi2 == IF proved
               THEN [mi EXCEPT !.trueCount = @ + 1, !.onlyTrue = TRUE]
               ELSE [mi EXCEPT !.onlyTrue = FALSE]
    IN [st EXCEPT !.results[obj] = mi2,
                  !.calls = Append(@, MapCall(st.boolValues, obj, rhs, proved, pos))]

recordAssignment(st, obj, rhs, pos) ==
    LET mi == st.results[obj]
        proved == isDefinitelyTrue(st.boolValues, rhs)
        mi1 == IF mi.pos = NoPos /\ pos # NoPos THEN [mi EXCEPT !.pos = pos] ELSE mi
        mi2 == IF proved
               THEN [mi1 EXCEPT !.trueCount = @ + 1]
               ELSE [mi1 EXCEPT !.onlyTrue = FALSE]
    IN [st EXCEPT !.results[obj] = mi2,
                  !.calls = Append(@, MapCall(st.boolValues, obj, rhs, proved, pos))]

\* one iteration of the loop of handleAssign, for the i-th left-hand side
handleAssignPair(dp, st, assign, i) ==
    LET lhs == assign.Lhs[i]
        ok == lhs.kind = "index" /\ lhs.parens = 0
        rhsExpr == exprAt(assign.Rhs, Len(assign.Rhs), i)
        st1 == IF rhsExpr # NilExpr
               THEN trackVarAssignment(dp, st, lhs, rhsExpr, assign.Tok)
               ELSE st
    IN IF ~ok \/ assign.Tok # TokAssign \/ rhsExpr = NilExpr THEN st1
       ELSE LET obj == mapObject(IndexX(lhs))
            IN IF infoForIsNil(obj) THEN st1
               ELSE recordAssignment(infoFor(dp, st1, obj), obj, rhsExpr, PosOf(assign.k, i))

RECURSIVE handleAssignBackwards(_, _, _, _)
handleAssignBackwards(dp, st, assign, i) ==
    IF i > Len(assign.Lhs) THEN st
    ELSE handleAssignPair(dp, handleAssignBackwards(dp, st, assign, i + 1), assign, i)

RECURSIVE handleAssignFrom(_, _, _, _)
handleAssignFrom(dp, st, assign, i) ==
    IF i > Len(assign.Lhs) THEN st
    ELSE handleAssignFrom(dp, handleAssignPair(dp, st, assign, i), assign, i + 1)

handleAssign(dp, st, assign) == handleAssignFrom(dp, st, assign, 1)

RECURSIVE recordElts(_, _, _, _, _)
recordElts(st, obj, lit, k, j) ==
    IF j > Len(lit.elts) THEN st
    ELSE recordElts(recordAssignment(st, obj, lit.elts[j], PosOf(k, 4 + j)), obj, lit, k, j + 1)

\* the binding a composite literal initialises; parent is the node below the
\* top of the stack, i the place of the literal among its values
objectForComposite(parent, i) ==
    CASE parent.node = "ValueSpec" ->
           IF i <= Len(parent.Names)
           THEN (IF Defs(parent.Names[i]) # Null THEN Defs(parent.Names[i])
                 ELSE Uses(parent.Names[i]))
           ELSE Null
      [] parent.node = "AssignStmt" ->
           LET lhs == exprAt(parent.Lhs, Len(parent.Lhs), i)
           IN IF lhs = NilExpr THEN Null ELSE objectOfAssignable(lhs)
      [] OTHER -> Null

handleComposite(dp, st, lit, parent, i) ==
    IF TypesType(lit) = Null THEN st
    ELSE IF ~IsMapType(Underlying(TypesType(lit)))
            \/ ~isBool(MapElem(Underlying(TypesType(lit)))) THEN st
    ELSE LET obj == objectForComposite(parent, i)
         IN IF infoForIsNil(obj) THEN st
            ELSE recordElts(infoFor(dp, st, obj), obj, lit, parent.k, 1)

RECURSIVE handleValueSpecFrom(_, _, _, _)
handleValueSpecFrom(dp, st, spec, i) ==
    IF i > Len(spec.Names) THEN st
    ELSE LET rhs == exprAt(spec.Values, Len(spec.Values), i)
             d == Defs(spec.Names[i])
             obj == IF d = Null THEN Uses(spec.Names[i]) ELSE d
             st1 == IF rhs = NilExpr \/ obj = Null THEN st
                    ELSE recordVarAssignment(dp, st, obj, rhs)
         IN handleValueSpecFrom(dp, st1, spec, i + 1)

handleValueSpec(dp, st, spec) ==
    IF Len(spec.Names) = 0 THEN st
    ELSE IF Len(spec.Values) = 0 THEN st
    ELSE handleValueSpecFrom(dp, st, spec, 1)

\* a node between a statement and a composite literal below it: the node
\* under the top of the stack when the literal is visited
Inner(node, k) == [node |-> node, k |-> k]

\* The children of a node are visited after the node itself, each with the
\* node as the one under the top of the stack: handleComposite for every
\* composite literal, then the values of its entries; the operand of a
\* parenthesised expression; the arguments of a call.
RECURSIVE visitChildren(_, _, _, _, _)
RECURSIVE inspectExprKeepsParent(_, _, _, _, _)
RECURSIVE inspectExpr(_, _, _, _, _)

inspectExprKeepsParent(dp, st, e, parent, i) ==
    IF e.kind \notin {"complit", "call"} THEN st
    ELSE IF e.parens > 0
    THEN inspectExprKeepsParent(dp, st, [e EXCEPT !.parens = @ - 1], parent, i)
    ELSE IF e.kind = "complit"
    THEN visitChildren(dp, handleComposite(dp, st, e, parent, i), e.elts,
                       Inner("KeyValueExpr", parent.k), 1)
    ELSE visitChildren(dp, st, e.elts, Inner("CallExpr", parent.k), 1)

inspectExpr(dp, st, e, parent, i) ==
    IF e.kind \notin {"complit", "call"} THEN st
    ELSE IF e.parens > 0
    THEN inspectExpr(dp, st, [e EXCEPT !.parens = @ - 1], Inner("ParenExpr", parent.k), 1)
    ELSE IF e.kind = "complit"
    THEN visitChildren(dp, handleComposite(dp, st, e, parent, i), e.elts,
                       Inner("KeyValueExpr", parent.k), 1)
    ELSE visitChildren(dp, st, e.elts, Inner("CallExpr", parent.k), 1)

visitChildren(dp, st, values, parent, i) ==
    IF i > Len(values) THEN st
    ELSE visitChildren(dp, inspectExpr(dp, st, values[i], parent, i), values, parent, i + 1)

----------------------------------------------------------------------------
(* Analyze, after the files are inspected: one pass over the registry in   *)
(* the order the map iteration happens to take.                            *)

Message(key) ==
    <<"map[">> \o key \o <<"]bool only stores true values; consider map[">>
        \o key \o <<"]struct{}">>

RECURSIVE collectDiagsOnlySingle(_, _, _, _)
collectDiagsOnlySingle(dp, res, order, i) ==
    IF i > Len(order) THEN <<>>
    ELSE LET mi == res[order[i]]
             pos == IF mi.pos = NoPos THEN ObjPos(dp, order[i]) ELSE mi.pos
             rest == collectDiagsOnlySingle(dp, res, order, i + 1)
         IN IF mi.trueCount # 1 \/ ~mi.onlyTrue THEN rest
            ELSE IF pos = NoPos THEN rest
            ELSE <<[Pos |-> pos, Message |-> Message(mi.keyType)]>> \o rest

RECURSIVE collectDiagsAnyCount(_, _, _, _)
collectDiagsAnyCount(dp, res, order, i) ==
    IF i > Len(order) THEN <<>>
    ELSE LET mi == res[order[i]]
             pos == IF mi.pos = NoPos THEN ObjPos(dp, order[i]) ELSE mi.pos
             rest == collectDiagsAnyCount(dp, res, order, i + 1)
         IN IF ~mi.onlyTrue THEN rest
            ELSE IF pos = NoPos THEN rest
            ELSE <<[Pos |-> pos, Message |-> Message(mi.keyType)]>> \o rest

RECURSIVE collectDiags(_, _, _, _)
collectDiags(dp, res, order, i) ==
    IF i > Len(order) THEN <<>>
    ELSE LET mi == res[order[i]]
             pos == IF mi.pos = NoPos THEN ObjPos(dp, order[i]) ELSE mi.pos
             rest == collectDiags(dp, res, order, i + 1)
         IN IF mi.trueCount = 0 \/ ~mi.onlyTrue THEN rest
            ELSE IF pos = NoPos THEN rest
            ELSE <<[Pos |-> pos, Message |-> Message(mi.keyType)]>> \o rest

\* the orders in which a range over the registry can deliver its keys
IterationOrders(res) ==
    LET keys == {o \in Objects : res[o].present}
    IN {f \in [1..Cardinality(keys) -> keys] :
            \A i, j \in 1..Cardinality(keys) : i # j => f[i] # f[j]}

----------------------------------------------------------------------------
(* The statements the walk can meet next: the type-correct statements over *)
(* the objects declared so far (dp).  A package-level declaration precedes *)
(* the function body; a local is declared before it is used.               *)

Declared(dp, o) == o \notin Declarable \/ dp[o] # NoPos

Wrap(e, n) == [e EXCEPT !.parens = n]

\* boolean value expressions of the function body
ValueExprs(dp) ==
    {Lit(TRUE), Lit(FALSE), Call("bool"), Sel("fld")}
    \cup {Ident(o, FALSE) : o \in {x \in {"flag", "alias", "param", "gflag", "ctrue"} : Declared(dp, x)}}
    \cup {Wrap(e, n) : e \in {Lit(TRUE)} \cup {Ident(o, FALSE) : o \in {x \in {"flag"} : Declared(dp, x)}},
                       n \in 1..MaxParens}

\* the value expressions used in tuples and composite literals
ShortExprs(dp) ==
    {Lit(TRUE), Lit(FALSE)}
    \cup {Ident(o, FALSE) : o \in {x \in BoolLocals : Declared(dp, x)}}

PkgExprs(dp) ==
    {Lit(TRUE), Lit(FALSE), Call("bool")}
    \cup {Ident(o, FALSE) : o \in {x \in {"ctrue"} : Declared(dp, x)}}

\* the key/value values of the composite literals: T{}, T{k: e}, T{k: e, k2: e2}
EltsOver(S) ==
    {<<>>} \cup {<<e>> : e \in S}
    \cup {<<e1, e2>> : e1 \in S \cap {Lit(TRUE), Lit(FALSE), Ident("flag", FALSE)},
                       e2 \in S \cap {Lit(TRUE), Lit(FALSE), Ident("gflag", FALSE)}}

LitExprs(dp) ==
    {Lit(TRUE), Lit(FALSE)}
    \cup {Ident(o, FALSE) : o \in {x \in {"flag", "alias", "gflag"} : Declared(dp, x)}}

LocalLits(dp, t) == {CompLit(t, es) : es \in EltsOver(LitExprs(dp))}

PkgLits(dp, t) == {CompLit(t, es) : es \in EltsOver({Lit(TRUE), Lit(FALSE), Call("bool")})}

\* Analyze, lines 23-29: the analyzer of a run, with maps of its own; old is
\* the analyzer of the run before
newAnalyzerReused(old) == old

newAnalyzer(old) ==
    [results |-> [o \in Objects |-> NoInfo],
     boolValues |-> [o \in Objects |-> truthUnknown]]

Assign(tok, lhs, rhs, loop) ==
    [node |-> "AssignStmt", Tok |-> tok, Lhs |-> lhs, Rhs |-> rhs, inLoop |-> loop, k |-> 0]

Spec1(names, values) ==
    [node |-> "ValueSpec", Names |-> names, Values |-> values, inLoop |-> FALSE, k |-> 0]

\* return e1, ...: a statement the switch of inspectFile has no case for
Return(values) ==
    [node |-> "ReturnStmt", Results |-> values, inLoop |-> FALSE, k |-> 0]

SingleAssigns(dp) ==
    \* v = e
    {Assign(TokAssign, <<Ident(v, FALSE)>>, <<e>>, FALSE) :
        v \in {x \in BoolLocals : Declared(dp, x)}, e \in ValueExprs(dp)}
    \cup {Assign(TokAssign, <<Ident(v, FALSE)>>, <<e>>, FALSE) :
        v \in {x \in {"param", "gflag"} : Declared(dp, x)},
        e \in {Lit(TRUE), Lit(FALSE), Call("bool")}}
    \* v := e
    \cup {Assign(TokDefine, <<Ident(v, TRUE)>>, <<e>>, FALSE) :
        v \in {x \in BoolLocals : ~Declared(dp, x)}, e \in ValueExprs(dp)}
    \* s.fld = e,  _ = e
    \cup {Assign(TokAssign, <<t>>, <<e>>, FALSE) :
        t \in {Sel("fld"), Blank}, e \in {Lit(TRUE), Lit(FALSE)}}
    \* m[k] = e, (m)[k] = e, (*p)[k] = e
    \cup {Assign(TokAssign, <<Index(m, "ident")>>, <<e>>, FALSE) :
        m \in {x \in MapObjs : Declared(dp, x)}, e \in ValueExprs(dp)}
    \cup {Assign(TokAssign, <<Index(m, v)>>, <<e>>, FALSE) :
        m \in {x \in MapObjs : Declared(dp, x)}, v \in {"paren", "star"},
        e \in {Lit(TRUE), Lit(FALSE)}}
    \* for ... { m[k] = e }
    \cup {Assign(TokAssign, <<Index(m, "ident")>>, <<e>>, TRUE) :
        m \in {x \in MapObjs : Declared(dp, x)}, e \in {Lit(TRUE), Lit(FALSE)}}
    \* set := make(map[K]bool),  set := map[K]bool{...}
    \cup {Assign(TokDefine, <<Ident("set", TRUE)>>, <<e>>, FALSE) :
        e \in IF Declared(dp, "set") THEN {}
              ELSE {Call("map[K]bool")} \cup LocalLits(dp, "map[K]bool")}
    \* m = T{...}
    \cup UNION {{Assign(TokAssign, <<Ident(m, FALSE)>>, <<e>>, FALSE) :
                    e \in LocalLits(dp, ObjType(m))} :
                m \in {x \in MapObjs : Declared(dp, x)}}

TupleTargets(dp) ==
    {Ident(v, FALSE) : v \in {x \in BoolLocals : Declared(dp, x)}}
    \cup {Index(m, "ident") : m \in {x \in {"set"} : Declared(dp, x)}}

\* e1, e2   and the call f() that returns two values
TupleValues(dp) ==
    {v \in {<<e1, e2>> : e1 \in ShortExprs(dp), e2 \in ShortExprs(dp)} :
        v[1].kind = "lit" \/ v[2].kind = "lit"}
    \cup {<<Call("bool")>>}

TupleAssigns(dp) ==
    \* a, b = e1, e2   and   a, b = f()
    {Assign(TokAssign, <<t1, t2>>, r, FALSE) :
        t1 \in TupleTargets(dp),
        t2 \in TupleTargets(dp),
        r \in TupleValues(dp)}
    \* a, b := e1, e2  with at least one new variable on the left
    \cup {Assign(TokDefine, <<Ident(a, ~Declared(dp, a)), Ident(b, ~Declared(dp, b))>>, r, FALSE) :
        a \in BoolLocals, b \in BoolLocals, r \in TupleValues(dp)}

AssignStmts(dp) ==
    {a \in SingleAssigns(dp) \cup TupleAssigns(dp) :
        /\ Len(a.Lhs) = 2 /\ a.Tok = TokDefine =>
             /\ a.Lhs[1].obj # a.Lhs[2].obj
             /\ a.Lhs[1].def \/ a.Lhs[2].def
        /\ Len(a.Lhs) = 2 /\ a.Tok = TokAssign =>
             /\ a.Lhs[1].kind = "index" \/ a.Lhs[1] # a.Lhs[2]
             /\ a.Lhs[1].kind # a.Lhs[2].kind => "flag" \in {a.Lhs[1].obj, a.Lhs[2].obj}}

LocalSpecs(dp) ==
    \* var v bool,  var v = e
    {Spec1(<<Ident(v, TRUE)>>, vs) :
        v \in {x \in BoolLocals : ~Declared(dp, x)},
        vs \in {<<>>} \cup {<<e>> : e \in ValueExprs(dp)}}
    \* var a, b bool,  var a, b = e1, e2,  var a, b = f()
    \cup {Spec1(<<Ident("flag", TRUE), Ident("alias", TRUE)>>, vs) :
        vs \in IF Declared(dp, "flag") \/ Declared(dp, "alias") THEN {}
               ELSE {<<>>} \cup TupleValues(dp)}
    \* var set map[K]bool,  var set = map[K]bool{...}
    \cup {Spec1(<<Ident("set", TRUE)>>, vs) :
        vs \in IF Declared(dp, "set") THEN {}
               ELSE {<<>>} \cup {<<e>> : e \in LocalLits(dp, "map[K]bool")}}

PkgSpecs(dp) ==
    \* var gflag bool,  var gflag = e
    {Spec1(<<Ident("gflag", TRUE)>>, vs) :
        vs \in IF Declared(dp, "gflag") THEN {}
               ELSE {<<>>} \cup {<<e>> : e \in PkgExprs(dp)}}
    \* const ctrue = true
    \cup {Spec1(<<Ident("ctrue", TRUE)>>, vs) :
        vs \in IF Declared(dp, "ctrue") THEN {} ELSE {<<Lit(TRUE)>>}}
    \* var gset stringSet,  var gset = stringSet{...}
    \cup {Spec1(<<Ident("gset", TRUE)>>, vs) :
        vs \in IF Declared(dp, "gset") THEN {}
               ELSE {<<>>} \cup {<<e>> : e \in PkgLits(dp, "stringSet")}}

\* the type checker's positions once the statement is part of the file:
\* every identifier it defines gets its position
Declare(dp, names) ==
    [o \in Declarable |->
        IF \E i \in 1..Len(names) :
              names[i].kind = "ident" /\ names[i].parens = 0 /\ names[i].def
              /\ names[i].obj = o
        THEN DeclPosOf(o) ELSE dp[o]]

\* The files analysed more than once: MaxStmts statements, each of a few
\* forms, type-correct in their order.
FileForms ==
    {Assign(TokDefine, <<Ident("set", TRUE)>>, <<CompLit("map[K]bool", es)>>, FALSE) :
        es \in {<<>>, <<Lit(TRUE)>>}}
    \cup {Assign(TokDefine, <<Ident("flag", TRUE)>>, <<Lit(TRUE)>>, FALSE),
          Assign(TokAssign, <<Ident("flag", FALSE)>>, <<Lit(FALSE)>>, FALSE),
          Assign(TokAssign, <<Index("set", "ident")>>, <<Ident("flag", FALSE)>>, FALSE),
          Assign(TokAssign, <<Index("set", "ident"), Ident("flag", FALSE)>>,
                 <<Ident("flag", FALSE), Lit(FALSE)>>, FALSE),
          Spec1(<<Ident("gset", TRUE)>>, <<CompLit("stringSet", <<Lit(TRUE)>>)>>)}

StmtNames(s) == IF s.node = "AssignStmt" THEN s.Lhs ELSE s.Names

RECURSIVE FilesFrom(_, _, _)
FilesFrom(dp, inBody, n) ==
    IF n = 0 THEN {<<>>}
    ELSE LET menu == (FileForms \cap AssignStmts(dp))
                     \cup (IF inBody THEN {} ELSE FileForms \cap PkgSpecs(dp))
         IN UNION {{<<s>> \o f :
                        f \in FilesFrom(Declare(dp, StmtNames(s)),
                                        inBody \/ s.node = "AssignStmt", n - 1)} :
                   s \in menu}

Files == FilesFrom([o \in Declarable |-> NoPos], FALSE, MaxStmts)

\* The files that reach bindings through different references: statements
\* of the first function (its local map by identifier and in parentheses,
\* its local flag), then of the second function (its parameter and local of
\* the same names), and writes to the field map through s and through t.
IndexWrites(m, vias, values) ==
    {Assign(TokAssign, <<Index(m, v)>>, <<e>>, FALSE) : v \in vias, e \in values}

FirstFuncForms(dp) ==
    IF ~Declared(dp, "set")
    THEN {Assign(TokDefine, <<Ident("set", TRUE)>>, <<CompLit("map[K]bool", <<>>)>>, FALSE)}
    ELSE IndexWrites("set", {"ident", "paren"}, {Lit(TRUE), Lit(FALSE)})
         \cup (IF Declared(dp, "flag")
               THEN IndexWrites("set", {"ident"}, {Ident("flag", FALSE)})
               ELSE {Assign(TokDefine, <<Ident("flag", TRUE)>>, <<Lit(TRUE)>>, FALSE)})

SecondFuncForms(dp) ==
    IndexWrites("set2", {"ident"}, {Lit(TRUE), Lit(FALSE)})
    \cup (IF Declared(dp, "flag2")
          THEN IndexWrites("set2", {"ident"}, {Ident("flag2", FALSE)})
          ELSE {Assign(TokDefine, <<Ident("flag2", TRUE)>>, <<Lit(FALSE)>>, FALSE)})

FieldForms ==
    IndexWrites("fset", {"s.", "t."}, {Lit(TRUE), Lit(FALSE)})
    \cup IndexWrites("fset", {"(s.)"}, {Lit(TRUE)})

RECURSIVE RefFilesFrom(_, _, _)
RefFilesFrom(dp, second, n) ==
    IF n = 0 THEN {<<>>}
    ELSE UNION {{<<s>> \o f : f \in RefFilesFrom(Declare(dp, s.Lhs), second, n - 1)} :
                s \in (IF second THEN SecondFuncForms(dp) ELSE FirstFuncForms(dp))
                      \cup FieldForms}
         \cup (IF second THEN {}
               ELSE UNION {{<<s>> \o f : f \in RefFilesFrom(Declare(dp, s.Lhs), TRUE, n - 1)} :
                           s \in SecondFuncForms(dp)})

RefFiles == RefFilesFrom([o \in Declarable |-> NoPos], FALSE, MaxStmts)

\* The files that write to targets the registry excludes or cannot resolve:
\* the local map directly and through a dereferenced pointer, an index of
\* an index, a map of ints, a slice of bools, the imported package's map.
ExclForms(dp) ==
    (IF ~Declared(dp, "set")
     THEN {Assign(TokDefine, <<Ident("set", TRUE)>>, <<CompLit("map[K]bool", <<>>)>>, FALSE)}
     ELSE IndexWrites("set", {"ident", "star"}, {Lit(TRUE), Lit(FALSE)}))
    \cup IndexWrites("mm", {"index"}, {Lit(TRUE), Lit(FALSE)})
    \cup IndexWrites("imap", {"ident"}, {Call("int")})
    \cup IndexWrites("slc", {"ident"}, {Lit(TRUE)})
    \cup IndexWrites("ext", {"pkg."}, {Lit(TRUE), Lit(FALSE)})
    \cup {Assign(TokAssign, <<Ident("imap", FALSE)>>,
                 <<CompLit("map[string]int", <<Call("int")>>)>>, FALSE),
          Assign(TokAssign, <<SelOn("pkg", "ext")>>,
                 <<CompLit("map[string]bool", <<Lit(TRUE)>>)>>, FALSE)}

RECURSIVE ExclFilesFrom(_, _)
ExclFilesFrom(dp, n) ==
    IF n = 0 THEN {<<>>}
    ELSE UNION {{<<s>> \o f : f \in ExclFilesFrom(Declare(dp, s.Lhs), n - 1)} :
                s \in ExclForms(dp)}

ExclFiles == ExclFilesFrom([o \in Declarable |-> NoPos], MaxStmts)

\* The files of tuple assignments: the local map is declared first, then
\* come declarations of the local flag and assignments to two targets (the
\* map's elements, the flag) from two values or from one call of two
\* results; and the assignment of two values to three targets, which the
\* type checker rejects and the walk still meets when the caller passes on
\* a file with errors.
TupleForms(dp) ==
    LET elem == Index("set", "ident")
        flag == Ident("flag", FALSE)
    IN (IF Declared(dp, "flag")
        THEN {Assign(TokAssign, ts, <<v>>, FALSE) : ts \in {<<flag>>}, v \in {Lit(TRUE)}}
             \cup {Assign(TokAssign, <<flag, elem>>, <<v, flag>>, FALSE) : v \in {Lit(TRUE), Lit(FALSE)}}
             \cup {Assign(TokAssign, <<elem, flag>>, <<flag, v>>, FALSE) : v \in {Lit(TRUE), Lit(FALSE)}}
        ELSE {Assign(TokDefine, <<Ident("flag", TRUE)>>, <<v>>, FALSE) : v \in {Lit(TRUE), Lit(FALSE)}})
       \cup {Assign(TokAssign, <<elem, elem>>, <<v1, v2>>, FALSE) :
                v1 \in {Lit(TRUE), Lit(FALSE)}, v2 \in {Lit(TRUE), Lit(FALSE)}}
       \cup {Assign(TokAssign, <<elem, elem>>, <<Call("bool")>>, FALSE),
             Assign(TokAssign, <<elem, elem, elem>>, <<Lit(TRUE), Lit(TRUE)>>, FALSE)}

RECURSIVE TupleFilesFrom(_, _)
TupleFilesFrom(dp, n) ==
    IF n = 0 THEN {<<>>}
    ELSE UNION {{<<s>> \o f : f \in TupleFilesFrom(Declare(dp, s.Lhs), n - 1)} :
                s \in TupleForms(dp)}

TupleFiles ==
    LET decl == Assign(TokDefine, <<Ident("set", TRUE)>>, <<CompLit("map[K]bool", <<>>)>>, FALSE)
    IN {<<decl>> \o f :
           f \in TupleFilesFrom(Declare([o \in Declarable |-> NoPos], decl.Lhs), MaxStmts - 1)}

\* The files of composite literals.  A literal of a map type with bool
\* values stands as the value of a declaration or assignment of the local
\* map (alone, or second of two), of the field map; or elsewhere: in
\* parentheses, as the argument of a call, as the value of an entry of a
\* map of maps or of a field of a struct literal, as the result returned.
LitForms(dp) ==
    LET setLit(es) == CompLit("map[K]bool", es)
        strLit(es) == CompLit("map[string]bool", es)
        set == Ident("set", FALSE)
    IN (IF Declared(dp, "set")
        THEN {Assign(TokAssign, <<set>>, <<setLit(es)>>, FALSE) :
                 es \in {<<Lit(TRUE)>>, <<Lit(FALSE)>>}}
             \cup {Assign(TokAssign, <<set>>, <<Paren(setLit(<<Lit(TRUE)>>))>>, FALSE)}
        ELSE {Assign(TokDefine, <<Ident("set", TRUE)>>, <<setLit(es)>>, FALSE) :
                 es \in {<<>>, <<Lit(TRUE)>>, <<Lit(TRUE), Lit(FALSE)>>}}
             \cup {Spec1(<<Ident("set", TRUE)>>, <<setLit(<<Lit(TRUE)>>)>>)}
             \cup (IF Declared(dp, "flag") THEN {}
                   ELSE {Assign(TokDefine, <<Ident("flag", TRUE), Ident("set", TRUE)>>,
                                <<Lit(TRUE), setLit(<<Lit(FALSE)>>)>>, FALSE)}))
       \cup {Assign(TokAssign, <<SelOn("s", "fset")>>, <<strLit(<<Lit(TRUE)>>)>>, FALSE),
             Assign(TokAssign, <<Blank>>, <<CallWith("int", <<strLit(<<Lit(TRUE)>>)>>)>>, FALSE),
             Assign(TokAssign, <<Ident("mm", FALSE)>>,
                    <<CompLit("map[string]map[string]bool", <<strLit(<<Lit(TRUE)>>)>>)>>,
                    FALSE),
             Assign(TokAssign, <<Blank>>, <<CompLit("T", <<strLit(<<Lit(TRUE)>>)>>)>>, FALSE),
             Return(<<strLit(<<Lit(TRUE)>>)>>),
             Return(<<strLit(<<Lit(FALSE)>>)>>)}

RECURSIVE LitFilesFrom(_, _)
LitFilesFrom(dp, n) ==
    IF n = 0 THEN {<<>>}
    ELSE UNION {{<<s>> \o f :
                    f \in LitFilesFrom(IF s.node = "ReturnStmt" THEN dp
                                       ELSE Declare(dp, StmtNames(s)), n - 1)} :
                s \in LitForms(dp)}

LitFiles == LitFilesFrom([o \in Declarable |-> NoPos], MaxStmts)

\* The files that write the local flag and the maps in turn: declarations
\* and assignments of the flag (a constant, a call result), writes to the
\* field map of a constant and of the flag, and writes to the map of ints,
\* whose target is resolved and then left out.
SepForms(dp) ==
    (IF Declared(dp, "flag")
     THEN {Assign(TokAssign, <<Ident("flag", FALSE)>>, <<v>>, FALSE) :
              v \in {Lit(TRUE), Lit(FALSE), Call("bool")}}
          \cup IndexWrites("fset", {"s."}, {Ident("flag", FALSE)})
     ELSE {Assign(TokDefine, <<Ident("flag", TRUE)>>, <<v>>, FALSE) :
              v \in {Lit(TRUE), Lit(FALSE)}})
    \cup IndexWrites("fset", {"s."}, {Lit(TRUE), Lit(FALSE)})
    \cup IndexWrites("imap", {"ident"}, {Call("int")})

RECURSIVE SepFilesFrom(_, _)
SepFilesFrom(dp, n) ==
    IF n = 0 THEN {<<>>}
    ELSE UNION {{<<s>> \o f : f \in SepFilesFrom(Declare(dp, s.Lhs), n - 1)} :
                s \in SepForms(dp)}

SepFiles == SepFilesFrom([o \in Declarable |-> NoPos], MaxStmts)

----------------------------------------------------------------------------
(* History: the statements executed as straight-line Go, for as long as    *)
(* the body is straight-line code whose values the locals determine (no    *)
(* loop, call, parameter, package variable or field).  All right-hand      *)
(* operands are evaluated before any left-hand side is assigned; a local   *)
(* declared without initializer is false.                                  *)

ExecVars == BoolLocals

StmtTargets(s) == IF s.node = "AssignStmt" THEN s.Lhs ELSE s.Names

StmtValues(s) == IF s.node = "AssignStmt" THEN s.Rhs ELSE s.Values

Determined(e) ==
    \/ TypesValue(e) # <<>>
    \/ e.kind = "ident" /\ e.obj \in ExecVars

evalGo(v, e) ==
    IF TypesValue(e) # <<>> THEN TypesValue(e)[1]
    ELSE IF e.kind = "ident" /\ e.obj \in ExecVars THEN v[e.obj]
    ELSE FALSE

HasUnknown(s) ==
    \E i \in 1..Len(StmtValues(s)) :
        LET e == StmtValues(s)[i]
        IN IF e.kind = "complit"
           THEN \E j \in 1..Len(e.elts) : ~Determined(e.elts[j])
           ELSE ~Determined(e)

SetMax(S) == CHOOSE x \in S : \A y \in S : y <= x

execStmt(v, s) ==
    LET ts == StmtTargets(s)
        vs == StmtValues(s)
        value(i) == evalGo(v, exprAt(vs, Len(vs), i))
        hits(x) == {i \in 1..Len(ts) : ts[i].kind = "ident" /\ ts[i].obj = x}
    IN IF Len(vs) = 0 THEN v
       ELSE [x \in ExecVars |-> IF hits(x) = {} THEN v[x] ELSE value(SetMax(hits(x)))]

----------------------------------------------------------------------------
(* History: the truth latch of the specification, fed with every write to  *)
(* a boolean variable whatever its syntactic form, under Go's order of     *)
(* evaluation: the right-hand operands of a statement are judged in the    *)
(* state before the statement.  st is "none" (never written), "bad" (some  *)
(* written value was not provably true) or "ok" (every written value was   *)
(* a constant true or a local that was "ok"); from is the local whose      *)
(* value the last write copied, Null when it copied none.                  *)

OrcNone == [st |-> "none", from |-> Null]

OrcProvable(o, e) ==
    IF TypesValue(e) # <<>> THEN TypesValue(e)[1]
    ELSE e.kind = "ident" /\ e.obj \in BoolLocals /\ o[e.obj].st = "ok"

OrcWrite(o, x, e) ==
    [st |-> IF o[x].st = "bad" \/ ~OrcProvable(o, e) THEN "bad" ELSE "ok",
     from |-> IF e.kind = "ident" /\ e.obj \in BoolLocals
              THEN (IF e.obj = x THEN o[x].from ELSE e.obj)
              ELSE Null]

\* the latch after statement s
OrcStep(o, s) ==
    LET ts == StmtTargets(s)
        vs == StmtValues(s)
        hits(x) == {i \in 1..Len(ts) : ts[i].kind = "ident" /\ ts[i].obj = x
                                        /\ exprAt(vs, Len(vs), i) # NilExpr}
    IN IF Len(vs) = 0 THEN o
       ELSE [x \in OrcVars |->
               IF hits(x) = {} THEN o[x]
               ELSE OrcWrite(o, x, exprAt(vs, Len(vs), SetMax(hits(x))))]

----------------------------------------------------------------------------
(* History: what the calls of one visit say about the maps.                *)

IsLiteralTrue(e) == e.kind = "lit" /\ e.val

\* the statement is straight-line code over the locals: no loop body, no
\* parameter, package variable, field or call
InFragment(s) ==
    /\ ~s.inLoop
    /\ \A i \in 1..Len(StmtTargets(s)) :
          LET t == StmtTargets(s)[i]
          IN t.kind = "index" \/ t.obj \in BoolLocals \cup MapObjs
    /\ ~HasUnknown(s)

CallsOf(calls, op) == {calls[i] : i \in {j \in 1..Len(calls) : calls[j].op = op}}

\* stored: the value the write stores when executed (TRUE once the body
\* has left the straight-line fragment and execution is no longer followed)
\* orc: the latch of the specification when the written value is evaluated
WritesOf(calls, v, followed, o) ==
    {[proved |-> c.proved, src |-> Src(c.expr), srcState |-> c.srcState,
      stored |-> IF followed THEN evalGo(v, c.expr) ELSE TRUE,
      orc |-> o] :
        c \in CallsOf(calls, "recordAssignment")}

TrackedOf(calls) ==
    {[src |-> Src(c.expr), srcState |-> c.srcState,
      before |-> c.before, after |-> c.after] :
        c \in CallsOf(calls, "recordVarAssignment")}

\* the value is provably true as the specification defines it: a constant
\* true, or a function-local variable (no parameter, package variable or
\* field) whose truth state is always-true when the value is evaluated
SpecProvable(c) ==
    \/ TypesValue(c.expr) # <<>> /\ TypesValue(c.expr)[1]
    \/ Src(c.expr) \in BoolLocals /\ c.srcState = truthAlwaysTrue

\* the writes of statement s to a boolean local whose value is provably
\* true or not whatever the truth states are: a constant, a call result, a
\* field.  before and after are the local's truth state around the visit.
AssignsOf(s, bv0, bv1) ==
    LET ts == StmtTargets(s)
        vs == StmtValues(s)
    IN {[true |-> TypesValue(exprAt(vs, Len(vs), i)) = <<TRUE>>,
         before |-> bv0[ts[i].obj], after |-> bv1[ts[i].obj]] :
           i \in {j \in 1..Len(ts) :
                    /\ Len(vs) > 0
                    /\ ts[j].kind = "ident" /\ ts[j].obj \in BoolLocals
                    /\ LET e == exprAt(vs, Len(vs), j)
                       IN e # NilExpr /\ (TypesValue(e) # <<>> \/ e.kind \in {"call", "sel"})}}

WlogAfter(w, calls) ==
    [m \in MapObjs |->
        LET idx == {j \in 1..Len(calls) :
                        calls[j].op = "recordAssignment" /\ calls[j].obj = m}
        IN [any |-> w[m].any \/ idx # {},
            nonLit |-> w[m].nonLit \/ \E j \in idx : ~IsLiteralTrue(calls[j].expr),
            nonProv |-> w[m].nonProv \/ \E j \in idx : ~SpecProvable(calls[j])]]

----------------------------------------------------------------------------
(* The state machine *)

\* Analyze, lines 19-21: the test for the early return
returnsEarlyOnNilPkg(a) == a.pkg = Null

returnsEarly(a) == a.pkg = Null \/ ~a.files \/ a.info = Null

\* all three arguments there, the tables filled by the type checker
AllArgs == [pkg |-> AnalyzedPkg, files |-> TRUE, info |-> "full"]

\* no single call is under way
NoCall == qexpr = NilExpr /\ qret = <<>> /\ stack = <<>> /\ walk = <<>> /\ seen = <<>>

\* main is not running: no command line, no targets, no step taken
CmdIdle == [at |-> "idle", i |-> 0, hadError |-> FALSE, totalIssues |-> 0,
            status |-> -1, summary |-> FALSE, inspected |-> <<>>, sum |-> 0,
            errAt |-> 0, expandErr |-> FALSE, written |-> TRUE]

NoCmd == osArgs = <<>> /\ targets = <<>> /\ cmd = CmdIdle

\* the analyzer as Analyze constructs it, before the first node is visited
Constructed ==
    /\ results = [o \in Objects |-> NoInfo]
    /\ boolValues = [o \in Objects |-> truthUnknown]
    /\ diags = <<>>
    /\ phase = "decls"
    /\ pc = 0
    /\ declPos = [o \in Declarable |-> NoPos]
    /\ val = [x \in ExecVars |-> FALSE]
    /\ straightLine = TRUE
    /\ orc = [x \in OrcVars |-> OrcNone]
    /\ wlog = [m \in MapObjs |-> [any |-> FALSE, nonLit |-> FALSE,
                             nonProv |-> FALSE]]
    /\ writes = {}
    /\ tracked = {}
    /\ assigns = {}
    /\ NoCall
    /\ NoCmd

\* a file whose local map is keyed by string
Init ==
    args = AllArgs /\ keyT = Basic("string") /\ file = <<>> /\ prev = <<>> /\ Constructed

\* a file whose local map is keyed by any of the key types
InitMsg ==
    args = AllArgs /\ keyT \in KeyTypes /\ file = <<>> /\ prev = <<>> /\ Constructed

\* a given file whose statements reach the bindings through different references
InitRefs ==
    args = AllArgs /\ keyT = Basic("string") /\ file \in RefFiles /\ prev = <<>> /\ Constructed

\* a given file that writes to excluded and unresolvable targets
InitExcl ==
    args = AllArgs /\ keyT = Basic("string") /\ file \in ExclFiles /\ prev = <<>> /\ Constructed

\* a given file of composite literals
InitLit ==
    args = AllArgs /\ keyT = Basic("string") /\ file \in LitFiles /\ prev = <<>> /\ Constructed

\* a given file that writes the flag and the maps in turn
InitSep ==
    args = AllArgs /\ keyT = Basic("string") /\ file \in SepFiles /\ prev = <<>> /\ Constructed

\* a given file of tuple assignments
InitTuple ==
    args = AllArgs /\ keyT = Basic("string") /\ file \in TupleFiles /\ prev = <<>> /\ Constructed

\* a given file and any arguments: the package or nil, the file in the list
\* or an empty list, the type info filled, with empty tables, or nil
InitInput ==
    /\ args \in [pkg : {AnalyzedPkg, Null}, files : BOOLEAN, info : {"full", "empty", Null}]
    /\ keyT = Basic("string") /\ file \in Files /\ prev = <<>> /\ Constructed

\* a given file, analysed more than once
InitRuns ==
    args = AllArgs /\ keyT = Basic("string") /\ file \in Files /\ prev = <<>> /\ Constructed

\* the effect of visiting statement s0 as the next node of the walk
Visit(s0, names, st1, inBody) ==
    LET followed == straightLine /\ (inBody => InFragment(s0)) IN
    /\ ~returnsEarly(args)
    /\ results' = st1.results
    /\ boolValues' = st1.boolValues
    /\ pc' = pc + 1
    /\ declPos' = Declare(declPos, names)
    /\ val' = IF ~followed THEN [x \in ExecVars |-> FALSE]
              ELSE IF inBody THEN execStmt(val, s0) ELSE val
    /\ straightLine' = followed
    /\ orc' = OrcStep(orc, s0)
    /\ wlog' = WlogAfter(wlog, st1.calls)
    /\ writes' = WritesOf(st1.calls, val, followed, orc)
    /\ tracked' = TrackedOf(st1.calls)
    /\ assigns' = AssignsOf(s0, boolValues, st1.boolValues)
    /\ UNCHANGED <<diags, keyT, file, prev, args, query, inspect, cli>>

Start == [results |-> results, boolValues |-> boolValues, calls |-> <<>>]

\* case *ast.AssignStmt of inspectFile, then the composite literals below it
VisitAssignOf(stmts) ==
    /\ phase \in {"decls", "body"}
    /\ pc < MaxStmts
    /\ \E s0 \in stmts :
         LET s == [s0 EXCEPT !.k = pc]
             dp == Declare(declPos, s.Lhs)
             st1 == visitChildren(dp, handleAssign(dp, Start, s), s.Rhs, s, 1)
         IN /\ Visit(s, s.Lhs, st1, TRUE)
            /\ phase' = "body"

VisitAssignStmt == VisitAssignOf(AssignStmts(declPos))

\* the same case, for the short declaration of the local map by a literal:
\* set := map[K]bool{...}
VisitMapLiteral ==
    VisitAssignOf({s \in AssignStmts(declPos) :
                      /\ s.Tok = TokDefine
                      /\ s.Lhs = <<Ident("set", TRUE)>>
                      /\ s.Rhs[1].kind = "complit"})

\* case *ast.ValueSpec of inspectFile, then the composite literals below it
VisitSpecOf(stmts) ==
    /\ phase \in {"decls", "body"}
    /\ pc < MaxStmts
    /\ \E s0 \in stmts :
         LET s == [s0 EXCEPT !.k = pc]
             dp == Declare(declPos, s.Names)
             st1 == visitChildren(dp, handleValueSpec(dp, Start, s), s.Values, s, 1)
             local == Parent(s0.Names[1].obj) # "pkg"
         IN /\ Visit(s, s.Names, st1, local)
            /\ phase' = IF local THEN "body" ELSE phase

VisitValueSpec ==
    VisitSpecOf(IF phase = "decls" THEN PkgSpecs(declPos) \cup LocalSpecs(declPos)
                ELSE LocalSpecs(declPos))

\* Analyze, lines 35-53: the registry becomes the diagnostics
Finish ==
    /\ phase \in {"decls", "body"}
    /\ ~returnsEarly(args)
    /\ \E order \in IterationOrders(results) :
         diags' = collectDiags(declPos, results, order, 1)
    /\ phase' = "done"
    /\ writes' = {} /\ tracked' = {} /\ assigns' = {}
    /\ UNCHANGED <<results, boolValues, pc, declPos, val, straightLine, orc, wlog,
                   keyT, file, prev, args, query, inspect, cli>>

\* Analyze, lines 19-21: return nil before anything is constructed or walked
ReturnNil ==
    /\ phase = "decls" /\ pc = 0
    /\ returnsEarly(args)
    /\ diags' = <<>>
    /\ phase' = "done"
    /\ UNCHANGED <<results, boolValues, pc, declPos, val, straightLine, orc, wlog,
                   writes, tracked, assigns, keyT, file, prev, args, query, inspect, cli>>

Next == VisitAssignStmt \/ VisitValueSpec \/ Finish

Spec == Init /\ [][Next]_vars

\* the runs over a file that declares the local map, for every key type
NextMsg == VisitMapLiteral \/ Finish

SpecMsg == InitMsg /\ [][NextMsg]_vars

\* the walk over a given file: the next node is the next statement of it
VisitFileAssign ==
    /\ pc < Len(file)
    /\ VisitAssignOf({s \in {file[pc + 1]} : s.node = "AssignStmt"})

VisitFileSpec ==
    /\ pc < Len(file)
    /\ VisitSpecOf({s \in {file[pc + 1]} : s.node = "ValueSpec"})

FinishFile == pc = Len(file) /\ Finish

\* Analyze is called again with the same arguments: lines 23-29 make a new
\* analyzer, and the walk starts over.  The type checker's tables are the
\* same ones; the histories start over with the run.
Again ==
    /\ phase = "done"
    /\ Len(prev) + 1 < MaxRuns
    /\ prev' = Append(prev, {diags[i] : i \in DOMAIN diags})
    /\ LET v == newAnalyzer([results |-> results, boolValues |-> boolValues])
       IN results' = v.results /\ boolValues' = v.boolValues
    /\ diags' = <<>>
    /\ phase' = "decls"
    /\ pc' = 0
    /\ declPos' = [o \in Declarable |-> NoPos]
    /\ val' = [x \in ExecVars |-> FALSE]
    /\ straightLine' = TRUE
    /\ orc' = [x \in OrcVars |-> OrcNone]
    /\ wlog' = [m \in MapObjs |-> [any |-> FALSE, nonLit |-> FALSE,
                              nonProv |-> FALSE]]
    /\ writes' = {} /\ tracked' = {} /\ assigns' = {}
    /\ UNCHANGED <<keyT, file, args, query, inspect, cli>>

NextRuns == VisitFileAssign \/ VisitFileSpec \/ FinishFile \/ Again

SpecRuns == InitRuns /\ [][NextRuns]_vars

\* one run over a file of references: all its statements are assignments
NextRefs == VisitFileAssign \/ FinishFile

SpecRefs == InitRefs /\ [][NextRefs]_vars

SpecExcl == InitExcl /\ [][NextRefs]_vars

SpecTuple == InitTuple /\ [][NextRefs]_vars

SpecSep == InitSep /\ [][NextRefs]_vars

\* inspectFile at a node its switch has no case for: nothing is handled,
\* the children are visited.  Execution is not followed past a return.
VisitFileOther ==
    /\ phase \in {"decls", "body"}
    /\ ~returnsEarly(args)
    /\ pc < Len(file)
    /\ file[pc + 1].node = "ReturnStmt"
    /\ LET s == [file[pc + 1] EXCEPT !.k = pc]
           st1 == visitChildren(declPos, Start, s.Results, s, 1)
       IN /\ results' = st1.results
          /\ boolValues' = st1.boolValues
          /\ wlog' = WlogAfter(wlog, st1.calls)
          /\ writes' = WritesOf(st1.calls, val, FALSE, orc)
          /\ tracked' = TrackedOf(st1.calls)
    /\ pc' = pc + 1
    /\ phase' = "body"
    /\ val' = [x \in ExecVars |-> FALSE]
    /\ straightLine' = FALSE
    /\ assigns' = {}
    /\ UNCHANGED <<diags, declPos, orc, keyT, file, prev, args, query, inspect, cli>>

NextLit == VisitFileAssign \/ VisitFileSpec \/ VisitFileOther \/ FinishFile

SpecLit == InitLit /\ [][NextLit]_vars

\* The files walked node by node: the local map is declared with a literal
\* (by := or by var), then come an assignment of a literal in parentheses,
\* a literal passed to a call, a write to an element and a return of a
\* literal.
StackFilesFrom(n) ==
    LET lit(es) == CompLit("map[K]bool", es)
        rest == {Assign(TokAssign, <<Ident("set", FALSE)>>,
                        <<Wrap(lit(<<Lit(TRUE)>>), MaxParens)>>, FALSE),
                 Assign(TokAssign, <<Blank>>, <<CallWith("int", <<lit(<<Lit(TRUE)>>)>>)>>, FALSE),
                 Assign(TokAssign, <<Index("set", "ident")>>, <<Lit(TRUE)>>, FALSE),
                 Return(<<lit(<<Lit(FALSE)>>)>>)}
    IN [1..n -> rest]

StackFiles ==
    {<<d>> \o f :
        d \in {Assign(TokDefine, <<Ident("set", TRUE)>>,
                      <<CompLit("map[K]bool", <<Lit(TRUE), Lit(FALSE)>>)>>, FALSE),
               Spec1(<<Ident("set", TRUE)>>, <<CompLit("map[K]bool", <<Lit(TRUE)>>)>>)},
        f \in StackFilesFrom(MaxStmts - 1)}

InitStack ==
    args = AllArgs /\ keyT = Basic("string") /\ file \in StackFiles /\ prev = <<>> /\ Constructed

\* The syntax tree of the file.  A node is named by its path, the indices
\* of the children taken from the file down to it; the file has its
\* statements as children, a statement its operands in source order, a
\* parenthesised expression its operand, a composite literal the values of
\* its entries, a call its arguments, an index expression its operand.
Operands(s) ==
    IF s.node = "ReturnStmt" THEN s.Results ELSE StmtTargets(s) \o StmtValues(s)

ExprKids(e) ==
    IF e.parens > 0 THEN <<[e EXCEPT !.parens = @ - 1]>>
    ELSE CASE e.kind \in {"complit", "call"} -> e.elts
           [] e.kind = "index" -> <<IndexX(e)>>
           [] OTHER -> <<>>

Kids(t) ==
    CASE t.cls = "file" ->
           [i \in 1..Len(file) |-> [cls |-> "stmt", n |-> [file[i] EXCEPT !.k = i - 1]]]
      [] t.cls = "stmt" ->
           [i \in 1..Len(Operands(t.n)) |-> [cls |-> "expr", n |-> Operands(t.n)[i]]]
      [] OTHER ->
           [i \in 1..Len(ExprKids(t.n)) |-> [cls |-> "expr", n |-> ExprKids(t.n)[i]]]

RECURSIVE NodeAt(_)
NodeAt(path) ==
    IF path = <<>> THEN [cls |-> "file", n |-> <<>>]
    ELSE Kids(NodeAt(SubSeq(path, 1, Len(path) - 1)))[path[Len(path)]]

\* the callback of inspectFile, lines 74-81: what it does to the stack
\* when called with nil and when called with a node
inspectNilKeeps(stk) == stk

inspectNil(stk) == IF Len(stk) > 0 THEN SubSeq(stk, 1, Len(stk) - 1) ELSE stk

inspectPush(stk, n) == Append(stk, n)

\* lines 83-90: the case of the switch for node t, with the stack stk as
\* it is after the push; objectForComposite looks at stk[len(stk)-2]
inspectSwitch(t, stk, dp) ==
    CASE t.cls = "stmt" /\ t.n.node = "AssignStmt" -> handleAssign(dp, Start, t.n)
      [] t.cls = "stmt" /\ t.n.node = "ValueSpec" -> handleValueSpec(dp, Start, t.n)
      [] t.cls = "expr" /\ t.n.kind = "complit" /\ t.n.parens = 0 ->
           IF Len(stk) < 2 THEN Start
           ELSE LET lit == stk[Len(stk)]
                    below == NodeAt(stk[Len(stk) - 1])
                IN IF below.cls = "stmt" /\ below.n.node # "ReturnStmt"
                   THEN handleComposite(dp, Start, t.n, below.n,
                                        lit[Len(lit)] - Len(StmtTargets(below.n)))
                   ELSE handleComposite(dp, Start, t.n, Inner("other", lit[1] - 1), 1)
      [] OTHER -> Start

\* ast.Inspect calls the callback with the next node: the file first, then
\* the next child of the node on top of its recursion.  The callback
\* returns true, so the children of the node are walked next.
EnterNode ==
    /\ phase \in {"decls", "body"}
    /\ ~returnsEarly(args)
    /\ \/ walk = <<>> /\ seen = <<>>
       \/ walk # <<>> /\ walk[Len(walk)].next <= Len(Kids(NodeAt(walk[Len(walk)].path)))
    /\ LET path == IF walk = <<>> THEN <<>>
                   ELSE Append(walk[Len(walk)].path, walk[Len(walk)].next)
           t == NodeAt(path)
           dp == IF t.cls = "stmt" /\ t.n.node # "ReturnStmt"
                 THEN Declare(declPos, StmtNames(t.n)) ELSE declPos
           stk == inspectPush(stack, path)
           st1 == inspectSwitch(t, stk, dp)
       IN /\ stack' = stk
          /\ results' = st1.results
          /\ boolValues' = st1.boolValues
          /\ declPos' = dp
          /\ pc' = IF t.cls = "stmt" THEN pc + 1 ELSE pc
          /\ seen' = Append(seen, path)
          /\ walk' = (IF walk = <<>> THEN <<>>
                      ELSE [walk EXCEPT ![Len(walk)].next = @ + 1])
                     \o <<[path |-> path, next |-> 1]>>
    /\ phase' = "body"
    /\ UNCHANGED <<diags, val, straightLine, orc, wlog, writes, tracked, assigns,
                   keyT, file, prev, args, query, cli>>

\* the children of the node on top are walked: ast.Inspect calls the
\* callback with nil and returns to the parent
LeaveNode ==
    /\ phase \in {"decls", "body"}
    /\ walk # <<>>
    /\ walk[Len(walk)].next > Len(Kids(NodeAt(walk[Len(walk)].path)))
    /\ stack' = inspectNil(stack)
    /\ walk' = SubSeq(walk, 1, Len(walk) - 1)
    /\ UNCHANGED <<results, boolValues, diags, phase, pc, declPos, val, straightLine,
                   orc, wlog, writes, tracked, assigns, keyT, file, prev, args, query,
                   seen, cli>>

FinishWalk == walk = <<>> /\ seen # <<>> /\ Finish

NextStack == EnterNode \/ LeaveNode \/ FinishWalk

SpecStack == InitStack /\ [][NextStack]_vars

\* The expressions isDefinitelyTrue can be called with: constants, reads of
\* variables and of the constant, a call, a field, an element of the map,
\* each in up to MaxParens pairs of parentheses.
TruthExprs ==
    {Wrap(e, n) :
        e \in {Lit(TRUE), Lit(FALSE), Fold(TRUE), Fold(FALSE), Call("bool"), Sel("fld"),
               Index("set", "ident")}
              \cup {Ident(o, FALSE) : o \in {"flag", "alias", "param", "gflag", "ctrue"}},
        n \in 0..MaxParens}

\* the truth tables a walk can have built: a state for each function-scope
\* variable that recordVarAssignment accepts, unknown for every other object
TruthTables ==
    {[o \in Objects |-> IF o \in {"flag", "alias", "param"} THEN f[o] ELSE truthUnknown] :
        f \in [{"flag", "alias", "param"} ->
                 {truthUnknown, truthAlwaysTrue, truthNotAlwaysTrue}]}

\* one call of isDefinitelyTrue, at some point of a walk
InitTruth ==
    /\ args = AllArgs /\ keyT = Basic("string") /\ file = <<>> /\ prev = <<>>
    /\ results = [o \in Objects |-> NoInfo]
    /\ boolValues \in TruthTables
    /\ diags = <<>> /\ phase = "body" /\ pc = 0
    /\ declPos = [o \in Declarable |-> DeclPosOf(o)]
    /\ val = [x \in ExecVars |-> FALSE]
    /\ straightLine = FALSE
    /\ orc = [x \in OrcVars |-> OrcNone]
    /\ wlog = [m \in MapObjs |-> [any |-> FALSE, nonLit |-> FALSE, nonProv |-> FALSE]]
    /\ writes = {} /\ tracked = {} /\ assigns = {}
    /\ qexpr \in TruthExprs
    /\ qret = <<>>
    /\ stack = <<>> /\ walk = <<>> /\ seen = <<>>
    /\ NoCmd

CallIsDefinitelyTrue ==
    /\ qret = <<>>
    /\ qexpr # NilExpr
    /\ qret' = <<isDefinitelyTrue(boolValues, qexpr)>>
    /\ UNCHANGED <<results, boolValues, diags, phase, pc, declPos, val, straightLine,
                   orc, wlog, writes, tracked, assigns, keyT, file, prev, args, qexpr, inspect, cli>>

NextTruth == CallIsDefinitelyTrue

SpecTruth == InitTruth /\ [][NextTruth]_vars

\* one call of Analyze with any arguments
NextInput == ReturnNil \/ VisitFileAssign \/ VisitFileSpec \/ FinishFile

SpecInput == InitInput /\ [][NextInput]_vars

----------------------------------------------------------------------------
(* The command boolsetlint (cmd/boolsetlint/main.go).                      *)
(*                                                                         *)
(* The command runs in a directory that holds the directories              *)
(*   .   a   a/x   a-b   b                                                 *)
(* and no directory zz.  Its arguments are plain paths, some of them       *)
(* spelled uncleaned ("./a", "a/", ""), and patterns with "...".  What     *)
(* inspectPath finds in a target is not modelled: each call returns any    *)
(* count of diagnostics up to MaxIssues, or an error; every write to the   *)
(* error stream and every write of a diagnostic may fail.                  *)

Dirs == {".", "a", "a/x", "a-b", "b"}

PlainArgs == {".", "a", "./a", "a/", "b", ""}

Patterns == {"./...", "a/...", ".../x", ".../zz", "zz/..."}

\* strings.Contains(arg, "...")
IsPattern(arg) == arg \in Patterns

\* filepath.Clean on the paths of the model
Clean(p) ==
    CASE p = "./a" -> "a"
      [] p = "a/" -> "a"
      [] p = "./" -> "."
      [] p = "" -> "."
      [] p = "zz/" -> "zz"
      [] OTHER -> p

\* the order of Go strings (bytes: '-' < '.' < '/' < 'a' < 'b') on the
\* directories of the model
Rank(p) ==
    CASE p = "." -> 1
      [] p = "a" -> 2
      [] p = "a-b" -> 3
      [] p = "a/x" -> 4
      [] p = "b" -> 5

\* the part of the pattern before "..."
Prefix(pattern) ==
    CASE pattern = "./..." -> "./"
      [] pattern = "a/..." -> "a/"
      [] pattern = "zz/..." -> "zz/"
      [] OTHER -> ""

walkRoot(pattern) == Clean(Prefix(pattern))

\* the strings the compiled pattern matches, among the candidates and the
\* candidates followed by a slash: "..." compiles to ".*", and a leading
\* "./" of the pattern is dropped before it is compiled
compilePattern(pattern) ==
    CASE pattern = "./..." -> {".", "a", "a/", "a/x", "a/x/", "a-b", "a-b/", "b", "b/"}
      [] pattern = "a/..." -> {"a/", "a/x", "a/x/"}
      [] pattern = ".../x" -> {"a/x"}
      [] pattern = ".../zz" -> {}
      [] pattern = "zz/..." -> {}

\* candidate + "/"
WithSlash(candidate) ==
    CASE candidate = "a" -> "a/"
      [] candidate = "a/x" -> "a/x/"
      [] candidate = "a-b" -> "a-b/"
      [] candidate = "b" -> "b/"
      [] OTHER -> "./"

\* filepath.Walk from root: the directories below it, each directory before
\* its entries, the entries of one directory in the order of their names
WalkFrom(root) ==
    CASE root = "." -> <<".", "a", "a/x", "a-b", "b">>
      [] root = "a" -> <<"a", "a/x">>
      [] root = "a/x" -> <<"a/x">>
      [] root = "a-b" -> <<"a-b">>
      [] root = "b" -> <<"b">>

\* the callback of the walk in expandEllipsis
Matched(re, candidate) ==
    candidate \in re \/ (candidate # "." /\ WithSlash(candidate) \in re)

RECURSIVE insertSorted(_, _)
insertSorted(sorted, p) ==
    IF sorted = <<>> THEN <<p>>
    ELSE IF Rank(p) < Rank(Head(sorted)) THEN <<p>> \o sorted
    ELSE <<Head(sorted)>> \o insertSorted(Tail(sorted), p)

\* sort.Strings
RECURSIVE sortStrings(_)
sortStrings(dirs) ==
    IF dirs = <<>> THEN <<>>
    ELSE insertSorted(sortStrings(SubSeq(dirs, 1, Len(dirs) - 1)), dirs[Len(dirs)])

Failed == [err |-> TRUE, out |-> <<>>]

Returned(out) == [err |-> FALSE, out |-> out]

expandEllipsis(pattern) ==
    LET re == compilePattern(pattern)
        root == walkRoot(pattern)
    IN  IF root \notin Dirs THEN Failed
        ELSE Returned(sortStrings(SelectSeq(WalkFrom(root),
                                            LAMBDA d : Matched(re, d))))

expandArgKeepsEmpty(arg) ==
    IF IsPattern(arg) THEN expandEllipsis(arg) ELSE Returned(<<arg>>)

expandArg(arg) ==
    IF IsPattern(arg)
    THEN LET r == expandEllipsis(arg)
         IN  IF r.err THEN Failed
             ELSE IF Len(r.out) = 0 THEN Failed
             ELSE r
    ELSE Returned(<<arg>>)

\* the inner loop of expandTargets: the expanded targets of one argument,
\* from the j-th on, are cleaned and appended unless seen before
RECURSIVE appendTargets(_, _, _)
appendTargets(acc, expanded, j) ==
    IF j > Len(expanded) THEN acc
    ELSE LET clean == Clean(expanded[j])
         IN  IF clean \in acc.seen THEN appendTargets(acc, expanded, j + 1)
             ELSE appendTargets([seen |-> acc.seen \cup {clean},
                                 targets |-> Append(acc.targets, clean)],
                                expanded, j + 1)

\* the outer loop of expandTargets, from the i-th argument on
RECURSIVE expandFrom(_, _, _)
expandFrom(as, i, acc) ==
    IF i > Len(as) THEN Returned(acc.targets)
    ELSE LET expanded == expandArg(as[i])
         IN  IF expanded.err THEN Failed
             ELSE expandFrom(as, i + 1, appendTargets(acc, expanded.out, 1))

expandTargets(as) ==
    expandFrom(IF Len(as) = 0 THEN <<".">> ELSE as, 1,
               [seen |-> {}, targets |-> <<>>])

\* the command lines of the model
RECURSIVE ArgLists(_)
ArgLists(n) ==
    IF n = 0 THEN {<<>>}
    ELSE ArgLists(n - 1) \cup
         {Append(as, a) : as \in {l \in ArgLists(n - 1) : Len(l) = n - 1},
                          a \in PlainArgs \cup Patterns}

\* what one call of inspectPath returns: (0, err), or a count and no error
Outcomes ==
    {[count |-> n, err |-> FALSE] : n \in 0..MaxIssues} \cup {[count |-> 0, err |-> TRUE]}

exitStatusIssuesOnly(hadError, totalIssues) ==
    IF totalIssues > 0 THEN 1 ELSE 0

\* the end of main: os.Exit(1) if hadError || totalIssues > 0, else the
\* return from main, which is status 0
exitStatus(hadError, totalIssues) ==
    IF hadError \/ totalIssues > 0 THEN 1 ELSE 0

\* the analyzer's variables, which the command's steps leave alone
analysis == <<results, boolValues, diags, phase, pc, declPos, val, straightLine,
              orc, wlog, writes, tracked, assigns, keyT, file, prev, args, query,
              inspect>>

InitCmd ==
    /\ args = AllArgs /\ keyT = Basic("string") /\ file = <<>> /\ prev = <<>>
    /\ results = [o \in Objects |-> NoInfo]
    /\ boolValues = [o \in Objects |-> truthUnknown]
    /\ diags = <<>> /\ phase = "decls" /\ pc = 0
    /\ declPos = [o \in Declarable |-> NoPos]
    /\ val = [x \in ExecVars |-> FALSE]
    /\ straightLine = TRUE
    /\ orc = [x \in OrcVars |-> OrcNone]
    /\ wlog = [m \in MapObjs |-> [any |-> FALSE, nonLit |-> FALSE, nonProv |-> FALSE]]
    /\ writes = {} /\ tracked = {} /\ assigns = {}
    /\ NoCall
    /\ osArgs \in ArgLists(MaxArgs)
    /\ targets = <<>>
    /\ cmd = [CmdIdle EXCEPT !.at = "start"]

\* main calls expandTargets; on an error it writes the error and exits
\* with status 1, or with status 2 if the write fails
ExpandTargets ==
    /\ cmd.at = "start"
    /\ LET r == expandTargets(osArgs)
       IN  IF r.err
           THEN \E ok \in BOOLEAN :
                  /\ targets' = <<>>
                  /\ cmd' = [cmd EXCEPT !.at = "exit", !.expandErr = TRUE,
                                        !.written = ok,
                                        !.status = IF ok THEN 1 ELSE 2]
           ELSE /\ targets' = r.out
                /\ cmd' = [cmd EXCEPT !.at = "loop", !.i = 1]
    /\ UNCHANGED <<analysis, osArgs>>

\* one turn of the loop of main: inspectPath on the next target.  inspectDir
\* writes the diagnostics it found, main writes the error returned; a write
\* that fails ends the process with status 2 then and there
InspectTarget ==
    /\ cmd.at = "loop"
    /\ cmd.i <= Len(targets)
    /\ \E r \in Outcomes, ok \in BOOLEAN :
         /\ (r.count = 0 /\ ~r.err) => ok
         /\ cmd' = IF ok
                   THEN [cmd EXCEPT !.i = @ + 1,
                                    !.totalIssues = @ + r.count,
                                    !.hadError = @ \/ r.err,
                                    !.inspected = Append(@, targets[cmd.i]),
                                    !.sum = @ + r.count,
                                    !.errAt = IF r.err /\ @ = 0 THEN cmd.i ELSE @]
                   ELSE [cmd EXCEPT !.at = "exit", !.status = 2,
                                    !.written = FALSE,
                                    !.inspected = Append(@, targets[cmd.i]),
                                    !.sum = @ + r.count,
                                    !.errAt = IF r.err /\ @ = 0 THEN cmd.i ELSE @]
    /\ UNCHANGED <<analysis, osArgs, targets>>

\* after the loop: the summary line if there are issues, then the exit
ExitMain ==
    /\ cmd.at = "loop"
    /\ cmd.i > Len(targets)
    /\ \E ok \in BOOLEAN :
         /\ cmd.totalIssues = 0 => ok
         /\ cmd' = IF ok
                   THEN [cmd EXCEPT !.at = "exit",
                                    !.summary = cmd.totalIssues > 0,
                                    !.status = exitStatus(cmd.hadError, cmd.totalIssues)]
                   ELSE [cmd EXCEPT !.at = "exit", !.status = 2, !.written = FALSE]
    /\ UNCHANGED <<analysis, osArgs, targets>>

NextCmd == ExpandTargets \/ InspectTarget \/ ExitMain

SpecCmd == InitCmd /\ [][NextCmd]_vars

----------------------------------------------------------------------------
(* Properties *)

\* the diagnostics anchored where the record of m is anchored
DiagsOf(m) == {i \in DOMAIN diags : diags[i].Pos = results[m].pos}

Reported(m) == results[m].present /\ DiagsOf(m) # {}

Eligible(m) == results[m].present /\ results[m].trueCount > 0 /\ results[m].onlyTrue

\* C1 (soundness): when Analyze has returned, a map for which the walk
\* recorded at least one write whose value was not provably true when it
\* was visited (a constant false, a parameter, a local that is not
\* always-true, a call result, a package-scope variable, a field) has no
\* diagnostic, whatever its other writes were.
C1_Soundness ==
    phase = "done" => \A m \in MapObjs : wlog[m].nonProv => ~Reported(m)

\* C2 (no false positive against execution): in straight-line code over
\* boolean locals, every map write counted as proven stores true when the
\* body is executed.
C2_NoFalsePositive ==
    straightLine => \A w \in writes : w.proved => w.stored

\* C3 (completeness): when Analyze has returned, a map with at least one
\* recorded write, all of whose recorded writes are literal true, has exactly
\* one diagnostic, however many writes were recorded.
C3_Completeness ==
    phase = "done" =>
        \A m \in MapObjs :
            wlog[m].any /\ ~wlog[m].nonLit => Cardinality(DiagsOf(m)) = 1

\* the local map with several literal-true writes, reported once
C3_Witness ==
    /\ phase = "done"
    /\ wlog["set"].any /\ ~wlog["set"].nonLit
    /\ results["set"].trueCount >= 2
    /\ Cardinality(DiagsOf("set")) = 1

\* C4 (disproof is permanent): a record that is disproved stays disproved
\* through every later visit, and it is not reported although its count of
\* proven writes is positive.
C4_DisproofPermanent ==
    /\ [][\A m \in MapObjs :
            results[m].present /\ ~results[m].onlyTrue
                => results'[m].present /\ ~results'[m].onlyTrue]_vars
    /\ [](phase = "done" =>
            \A m \in MapObjs :
                results[m].present /\ ~results[m].onlyTrue => ~Reported(m))

\* the local map, disproved by an earlier visit, after a visit that recorded
\* only proven writes to it: still disproved
C4_Witness ==
    /\ phase = "body"
    /\ ~results["gset"].present
    /\ results["set"].present /\ ~results["set"].onlyTrue
    /\ results["set"].trueCount > 0
    /\ writes # {} /\ \A w \in writes : w.proved

\* C5 (eligibility): Analyze emits exactly one diagnostic for every record
\* with trueCount > 0 that is not disproved, and none for any other record
\* or object.
C5_Eligibility ==
    phase = "done" =>
        /\ \A m \in Objects :
             Cardinality(DiagsOf(m)) = IF Eligible(m) THEN 1 ELSE 0
        /\ Len(diags) = Cardinality({m \in Objects : Eligible(m)})

\* one record created by an empty literal (no write), another one reported
C5_Witness ==
    /\ phase = "done"
    /\ Len(diags) = 1
    /\ \E m \in MapObjs : results[m].present /\ results[m].trueCount = 0 /\ ~Reported(m)

\* C6 (truth latch): an assignment of a provably-true value to a local moves
\* its state from unknown to always-true and leaves the other states; an
\* assignment of a value that is not provably true moves it to not-provable;
\* so a local that is not-provable stays so.
C6_TruthLatch ==
    \A a \in assigns :
        a.after = IF ~a.true THEN truthNotAlwaysTrue
                  ELSE IF a.before = truthUnknown THEN truthAlwaysTrue
                  ELSE a.before

\* C7 (local truth propagation): a map write through the second local, a
\* copy of the first, is proved when both were only assigned provably-true
\* values; it is not proved when the first local was reassigned a value that
\* is not provably true anywhere before the statement of the map write.
C7_Propagation ==
    \A w \in writes :
        w.src = "alias" /\ w.orc["alias"].from = "flag" =>
            /\ w.orc["flag"].st = "ok" /\ w.orc["alias"].st = "ok" => w.proved
            /\ w.orc["flag"].st = "bad" => ~w.proved

\* C7, amended: truth propagates by the state at the copy.  A tracked copy
\* of a local leaves the target always-true exactly when the source is
\* always-true as the copy is visited and the target is not not-provable,
\* else not-provable; a map write through a local is proved exactly when
\* that local is always-true as the write is visited.
C7_PropagationAtCopy ==
    /\ \A c \in tracked :
         c.src \in BoolLocals =>
            c.after = IF c.srcState = truthAlwaysTrue /\ c.before # truthNotAlwaysTrue
                      THEN truthAlwaysTrue ELSE truthNotAlwaysTrue
    /\ \A w \in writes :
         w.src \in BoolLocals => (w.proved <=> w.srcState = truthAlwaysTrue)

\* the map write through the copy is proved although the first local was
\* reassigned a value that is not provably true after the copy
C7_Witness ==
    \E w \in writes :
        /\ w.src = "alias" /\ w.proved
        /\ w.orc["alias"] = [st |-> "ok", from |-> "flag"]
        /\ w.orc["flag"].st = "bad"
        /\ boolValues["flag"] = truthNotAlwaysTrue

\* C8 (scope isolation): the package-scope variable and the struct field
\* keep the state unknown whatever is assigned to them, and no map write
\* whose value reads one of them is proved.
C8_ScopeIsolation ==
    /\ boolValues["gflag"] = truthUnknown
    /\ boolValues["fld"] = truthUnknown
    /\ \A w \in writes : w.src \in {"gflag", "sel"} => ~w.proved

\* the package variable and a local were both only assigned true; the write
\* through the package variable is not proved, the one through the local is
C8_Witness ==
    /\ orc["gflag"] = [st |-> "ok", from |-> Null]
    /\ \E w \in writes : w.src = "gflag" /\ ~w.proved
    /\ \E w \in writes : w.src = "flag" /\ w.orc["flag"].st = "ok" /\ w.proved

\* C9 (parameter exclusion): the parameter never gets a truth state and no
\* map write whose value reads the parameter is proved.
C9_ParamExcluded ==
    /\ boolValues["param"] = truthUnknown
    /\ \A w \in writes : w.src = "param" => ~w.proved

\* C10 (every write is tracked): a local that was written a value that is
\* not provably true, in whatever syntactic form, is not always-true, and no
\* later map write reading it is proved.
C10_EveryWriteTracked ==
    /\ \A v \in BoolLocals : orc[v].st = "bad" => boolValues[v] # truthAlwaysTrue
    /\ \A w \in writes : w.src \in BoolLocals /\ w.orc[w.src].st = "bad" => ~w.proved

\* inspectFile over the statements of f from the k-th on: the calls of
\* recordAssignment and recordVarAssignment of the whole walk, in order
RECURSIVE inspectFile(_, _, _, _)
inspectFile(f, k, dp, st) ==
    IF k >= Len(f) THEN st.calls
    ELSE LET s == [f[k + 1] EXCEPT !.k = k]
             dp1 == Declare(dp, StmtNames(s))
             st1 == IF s.node = "AssignStmt"
                    THEN visitChildren(dp1, handleAssign(dp1, st, s), s.Rhs, s, 1)
                    ELSE visitChildren(dp1, handleValueSpec(dp1, st, s), s.Values, s, 1)
         IN inspectFile(f, k + 1, dp1, st1)

\* the position of the first write recorded for m over the file that
\* carried a valid position, NoPos when there was none
FirstWrite(m) ==
    LET calls == inspectFile(file, 0, [o \in Declarable |-> NoPos],
                             [results |-> [o \in Objects |-> NoInfo],
                              boolValues |-> [o \in Objects |-> truthUnknown],
                              calls |-> <<>>])
        valid == {j \in 1..Len(calls) :
                     /\ calls[j].op = "recordAssignment" /\ calls[j].obj = m
                     /\ calls[j].pos # NoPos}
    IN IF valid = {} THEN NoPos
       ELSE calls[CHOOSE j \in valid : \A i \in valid : j <= i].pos

\* C11 (anchoring): the diagnostic of a reported map is positioned at the
\* first write recorded for it that carried a valid position; the position
\* of the declaration is used only when there was no such write.
C11_AnchoredAtFirstWrite ==
    phase = "done" =>
        \A m \in MapObjs :
            Reported(m) =>
                \A i \in DiagsOf(m) :
                    diags[i].Pos = IF FirstWrite(m) # NoPos THEN FirstWrite(m)
                                   ELSE ObjPos(declPos, m)

\* the rendering of a key type that the message format prescribes: a type
\* of the analysed package (or of no package) by its bare name, a type of
\* another package prefixed by the short name of that package
RECURSIVE Rendered(_)
Rendered(t) ==
    CASE t.kind = "basic" -> <<t.name>>
      [] t.kind = "named" ->
            IF t.pkg \in {Null, AnalyzedPkg} THEN <<t.name>>
            ELSE <<PkgName(t.pkg), ".", t.name>>
      [] t.kind = "pointer" -> <<"*">> \o Rendered(t.elem)
      [] t.kind = "array" -> <<"[2]">> \o Rendered(t.elem)

C13_QuotedTrue ==
    phase = "done" =>
        \A m \in MapObjs :
            Reported(m) /\ MapKey(Underlying(ObjType(m))) = Basic("string") =>
                \A i \in DiagsOf(m) :
                    diags[i].Message =
                        <<"map[", "string",
                          "]bool only stores \"true\" values; consider map[",
                          "string", "]struct{}">>

\* C14 (deterministic ordering): the diagnostics Analyze hands to its caller
\* are in ascending order of position, whatever order the iteration over the
\* registry took.
C14_SortedByOffset ==
    phase = "done" =>
        \A i, j \in DOMAIN diags : i < j => diags[i].Pos <= diags[j].Pos

\* C15 (idempotence): a run of Analyze over a file returns the same set of
\* (position, message) diagnostics as every earlier run over the same file,
\* whatever order the iterations over the registry took.
C15_Idempotent ==
    phase = "done" =>
        \A r \in DOMAIN prev : prev[r] = {diags[i] : i \in DOMAIN diags}

\* a second run over a file with two reported maps and a local that ends
\* distrusted, the two runs returning the diagnostics in different orders
C15_Witness ==
    /\ phase = "done"
    /\ Len(prev) = 1
    /\ Len(diags) = 2 /\ diags[1].Pos > diags[2].Pos
    /\ prev[1] = {diags[1], diags[2]}

\* The binding an indexed target denotes by the language: the variable named,
\* in parentheses or not, or the field selected, whatever it is selected on.
Denoted(lhs) ==
    IF lhs.kind = "index" /\ lhs.via \in {"ident", "paren", "s.", "t.", "(s.)"}
    THEN lhs.obj ELSE Null

\* the indexed writes to binding m among the first n statements of the file
WritesTo(m, n) ==
    {k \in 1..n : file[k].node = "AssignStmt" /\ file[k].Tok = TokAssign
                   /\ Denoted(file[k].Lhs[1]) = m}

\* the local x is declared by x := true among the first n statements
DeclaredTrue(x, n) ==
    \E j \in 1..n :
        /\ file[j].node = "AssignStmt" /\ file[j].Tok = TokDefine
        /\ file[j].Lhs[1].kind = "ident" /\ file[j].Lhs[1].obj = x
        /\ file[j].Rhs[1] = Lit(TRUE)

\* the k-th statement stores a value that is true by the rules of the
\* analysis: literal true, or a local declared true before
StoresTrue(k) ==
    LET e == file[k].Rhs[1]
    IN \/ e = Lit(TRUE)
       \/ e.kind = "ident" /\ DeclaredTrue(e.obj, k - 1)

\* C16 (identity-keyed registry): at every point of the walk the one record
\* of a binding holds all the writes made so far to that binding, through
\* whatever reference: it exists when there was a write, its count is the
\* number of the proven ones and it is disproved exactly when one was not
\* proven; the two maps named set have records of their own, and the two
\* locals named flag truth states of their own.
C16_OneRecordPerBinding ==
    /\ \A m \in MapObjs \cup RefMaps :
         LET W == WritesTo(m, pc)
             T == {k \in W : StoresTrue(k)}
         IN /\ W # {} => results[m].present
            /\ results[m].present =>
                  /\ results[m].trueCount = Cardinality(T)
                  /\ results[m].onlyTrue = (T = W)
    /\ boolValues["flag"] =
          IF DeclaredTrue("flag", pc) THEN truthAlwaysTrue ELSE truthUnknown
    /\ boolValues["flag2"] =
          IF declPos["flag2"] # NoPos THEN truthNotAlwaysTrue ELSE truthUnknown

\* the first function's set, declared and then written in parentheses, has
\* the write in the record of its declaration; the second function's set is
\* disproved
C16_Witness ==
    /\ phase = "body" /\ pc = Len(file)
    /\ ObjName("set") = ObjName("set2")
    /\ \E k \in WritesTo("set", pc) : file[k].Lhs[1].via = "paren"
    /\ results["set"].trueCount = 1 /\ results["set"].onlyTrue
    /\ results["set2"].present /\ ~results["set2"].onlyTrue

\* C17 (registry exclusion): infoFor returns nil for no object, for the
\* imported package's map, for the map of ints, the slice and the map of
\* maps; none of them ever has a record, whatever is written to it, and
\* every diagnostic is the diagnostic of a recorded map of bools of the
\* analysed package.
C17_RegistryExclusion ==
    /\ \A o \in OtherObjs \cup {Null} : infoForIsNil(o)
    /\ \A o \in OtherObjs : ~results[o].present
    /\ \A i \in DOMAIN diags :
         \E m \in MapObjs \cup RefMaps : results[m].present /\ i \in DiagsOf(m)

\* after a file that stored true in the imported package's map, by index and
\* by literal, and declared the local map: nothing recorded but the local map
C17_Witness ==
    /\ phase = "done"
    /\ \E j, k \in DOMAIN file :
         /\ file[j].Lhs[1].kind = "index" /\ file[j].Lhs[1].obj = "ext"
         /\ file[j].Rhs[1] = Lit(TRUE)
         /\ file[k].Lhs[1].kind = "sel" /\ file[k].Lhs[1].obj = "ext"
    /\ results["set"].present
    /\ diags = <<>>

\* the k-th statement of the file is an indexed write whose target does not
\* resolve to a binding of the analysed package: through a dereferenced
\* pointer, into an index expression, or into the imported package's map
Unresolvable(k) ==
    /\ file[k].node = "AssignStmt"
    /\ file[k].Lhs[1].kind = "index"
    /\ file[k].Lhs[1].via \in {"star", "index", "pkg."}

\* C18 (unresolvable target): the visit of an indexed write whose target
\* cannot be resolved to an in-package binding leaves every record and every
\* truth state as it was, and a map with no write but such writes is not
\* reported.
C18_UnresolvableIgnored ==
    /\ [][pc < Len(file) /\ pc' = pc + 1 /\ Unresolvable(pc + 1)
            => results' = results /\ boolValues' = boolValues]_vars
    /\ [](phase = "done" =>
            \A m \in MapObjs \cup RefMaps :
                WritesTo(m, Len(file)) = {} => ~Reported(m))

\* the local map, declared, then stored true only through the pointer: it
\* has a record without a proven write and is not reported
C18_Witness ==
    /\ phase = "done"
    /\ \E k \in DOMAIN file :
         file[k].Lhs[1].via = "star" /\ file[k].Rhs[1] = Lit(TRUE)
    /\ WritesTo("set", Len(file)) = {}
    /\ results["set"].present /\ results["set"].trueCount = 0
    /\ ~Reported("set")

C20_EmptyInput ==
    phase = "done" =>
        /\ args.pkg = Null \/ ~args.files \/ args.info = Null =>
              /\ diags = <<>>
              /\ pc = 0
              /\ \A o \in Objects : ~results[o].present /\ boolValues[o] = truthUnknown
        /\ args.info = "empty" => diags = <<>>

\* the whole file walked with empty tables, a file whose local map is
\* reported when the tables are filled (a literal with a true element, then
\* a write of a local that is always true): no diagnostic
C20_Witness ==
    /\ phase = "done"
    /\ args = [pkg |-> AnalyzedPkg, files |-> TRUE, info |-> "empty"]
    /\ pc = Len(file)
    /\ Len(file) = 3 /\ \A i \in 1..3 : file[i].node = "AssignStmt"
    /\ file[1] = Assign(TokDefine, <<Ident("set", TRUE)>>,
                        <<CompLit("map[K]bool", <<Lit(TRUE)>>)>>, FALSE)
    /\ file[2] = Assign(TokDefine, <<Ident("flag", TRUE)>>, <<Lit(TRUE)>>, FALSE)
    /\ file[3] = Assign(TokAssign, <<Index("set", "ident")>>, <<Ident("flag", FALSE)>>,
                        FALSE)
    /\ diags = <<>>

\* C21 (isProvablyTrue): the call returns true exactly when, with the
\* parentheses taken off, the expression is a constant expression of value
\* true, an identifier of a constant whose value is true, or an identifier
\* of a variable whose truth state is always-true; so it returns false for
\* a constant false, a call, an index or selector expression, and a
\* variable whose state is unknown or not-always-true.
C21_ProvablyTrue ==
    qret # <<>> =>
        LET u == [qexpr EXCEPT !.parens = 0]
            folded == u.kind \in {"lit", "fold"}
            const == u.kind = "ident" /\ IsConst(u.obj)
            var == u.kind = "ident" /\ IsVar(u.obj)
            provable == \/ folded /\ u.val
                        \/ const /\ ConstVal(u.obj)
                        \/ var /\ boolValues[u.obj] = truthAlwaysTrue
        IN /\ qret[1] <=> provable
           /\ folded /\ ~u.val => ~qret[1]
           /\ u.kind \in {"call", "index", "sel"} => ~qret[1]
           /\ var /\ boolValues[u.obj] \in {truthUnknown, truthNotAlwaysTrue} => ~qret[1]

\* a read of an always-true local in parentheses was found provably true
C21_Witness ==
    /\ qret = <<TRUE>>
    /\ qexpr = Paren(Ident("flag", FALSE))
    /\ boolValues["flag"] = truthAlwaysTrue

\* the values of the registry that the writes decide
Counts(res) == [o \in Objects |-> [present |-> res[o].present,
                                   onlyTrue |-> res[o].onlyTrue,
                                   trueCount |-> res[o].trueCount]]

\* the statement  t = e  in the place of statement s
SingleOf(s, t, e) == [s EXCEPT !.Lhs = <<t>>, !.Rhs = <<e>>]

\* the analyzer after the single assignments  Lhs[i] = e, Lhs[i+1] = e', ...
\* in this order, where e is the i-th right-hand expression, or the only
\* one; a target that has none is passed over
RECURSIVE AsSingles(_, _, _, _)
AsSingles(dp, st, s, i) ==
    IF i > Len(s.Lhs) THEN st
    ELSE LET paired == Len(s.Rhs) = 1 \/ i <= Len(s.Rhs)
             e == IF Len(s.Rhs) = 1 THEN s.Rhs[1] ELSE s.Rhs[i]
         IN AsSingles(dp,
                      IF paired THEN handleAssign(dp, st, SingleOf(s, s.Lhs[i], e)) ELSE st,
                      s, i + 1)

\* the assignment of two constants to two elements of the local map
IsPairOfConstants(s) ==
    /\ s.node = "AssignStmt" /\ s.Tok = TokAssign
    /\ s.Lhs = <<Index("set", "ident"), Index("set", "ident")>>
    /\ Len(s.Rhs) = 2 /\ s.Rhs[1].kind = "lit" /\ s.Rhs[2].kind = "lit"

TrueValues(s) == Cardinality({i \in 1..Len(s.Rhs) : s.Rhs[i].val})

\* C22 (tuple assignment): the visit of an assignment to several targets
\* leaves the registry and the truth table as the single assignments of the
\* i-th value (or of the only value) to the i-th target would, made one
\* after the other from left to right, a target without a value being
\* passed over; set[a], set[b] = v1, v2 with constants adds one proven write
\* per true value and disproves the map when a value is false; and a file
\* that declares the map and then only makes such assignments gets one
\* diagnostic when every value is true and none when some value is false.
C22_TupleAssignment ==
    /\ [][pc' = pc + 1 /\ Len(file[pc + 1].Lhs) > 1 =>
            LET s == [file[pc + 1] EXCEPT !.k = pc]
                st == AsSingles(declPos', Start, s, 1)
            IN /\ Counts(results') = Counts(st.results)
               /\ boolValues' = st.boolValues
               /\ IsPairOfConstants(s) =>
                     /\ results'["set"].trueCount = results["set"].trueCount + TrueValues(s)
                     /\ results'["set"].onlyTrue =
                            (results["set"].onlyTrue /\ TrueValues(s) = 2)]_vars
    /\ [](phase = "done" /\ (\A i \in 2..Len(file) : IsPairOfConstants(file[i])) =>
             Len(diags) = IF \A i \in 2..Len(file) : TrueValues(file[i]) = 2 THEN 1 ELSE 0)

\* the flag was true, then  flag, set[a] = false, flag  was visited: the
\* write to the map read the flag after the first pair had disproved it
C22_Witness ==
    /\ pc = 3
    /\ file[2] = Assign(TokDefine, <<Ident("flag", TRUE)>>, <<Lit(TRUE)>>, FALSE)
    /\ file[3] = Assign(TokAssign, <<Ident("flag", FALSE), Index("set", "ident")>>,
                        <<Lit(FALSE), Ident("flag", FALSE)>>, FALSE)
    /\ boolValues["flag"] = truthNotAlwaysTrue
    /\ results["set"].present /\ ~results["set"].onlyTrue

\* the literal e is the value at position i of statement s, stands there
\* bare, has a map type with bool values, and the target at position i is
\* the binding b
IsDirectLit(s, i, b) ==
    /\ s.node \in {"AssignStmt", "ValueSpec"}
    /\ i <= Len(StmtValues(s)) /\ i <= Len(StmtTargets(s))
    /\ LET e == StmtValues(s)[i]
           t == StmtTargets(s)[i]
       IN /\ e.kind = "complit" /\ e.parens = 0
          /\ e.typ \in {"map[K]bool", "map[string]bool", "stringSet"}
          /\ t.kind \in {"ident", "sel"} /\ t.obj = b

\* the values of the entries of the literals of statement s that are the
\* value of binding b, from position i on
RECURSIVE DirectEntries(_, _, _)
DirectEntries(s, b, i) ==
    IF s.node = "ReturnStmt" THEN <<>>
    ELSE IF i > Len(StmtValues(s)) THEN <<>>
    ELSE (IF IsDirectLit(s, i, b) THEN StmtValues(s)[i].elts ELSE <<>>)
         \o DirectEntries(s, b, i + 1)

\* the same for the first n statements of the file
RECURSIVE EntriesOf(_, _)
EntriesOf(b, n) ==
    IF n = 0 THEN <<>> ELSE EntriesOf(b, n - 1) \o DirectEntries(file[n], b, 1)

HasDirectLit(b, n) ==
    \E k \in 1..n :
        /\ file[k].node # "ReturnStmt"
        /\ \E i \in 1..Len(StmtValues(file[k])) : IsDirectLit(file[k], i, b)

\* C23 (composite literal): at every point of the walk a binding has a
\* record exactly when a literal of a map type with bool values was visited
\* as the bare value of a declaration or assignment at the position of that
\* binding; the record then counts one proven write per entry of those
\* literals whose value is the constant true and is disproved exactly when
\* one of their entries has another value.  The literals in parentheses,
\* in a call's arguments, in an entry of a map of maps, in a field of a
\* struct literal and in a return statement create no record and record
\* nothing.
C23_CompositeLiteral ==
    \A b \in Objects :
        LET es == EntriesOf(b, pc)
            true == {j \in 1..Len(es) : es[j] = Lit(TRUE)}
        IN /\ results[b].present = HasDirectLit(b, pc)
           /\ results[b].present =>
                /\ results[b].trueCount = Cardinality(true)
                /\ results[b].onlyTrue = (Cardinality(true) = Len(es))

\* the local map was declared second of two by a literal with a false
\* entry, then a literal with a true entry was returned: the map has its
\* record, disproved and without a proven write, and the flag has none
C23_Witness ==
    /\ pc = 2
    /\ file[1].node = "AssignStmt" /\ Len(file[1].Lhs) = 2
    /\ file[2].node = "ReturnStmt" /\ file[2].Results[1].elts = <<Lit(TRUE)>>
    /\ results["set"].present /\ ~results["set"].onlyTrue
    /\ results["set"].trueCount = 0
    /\ ~results["flag"].present

\* C24 (separation of effects): the visit of an assignment to the local
\* flag leaves every map record as it was, so a write counted as proven is
\* not revoked when the flag it read is assigned a value that is not
\* provably true; the visit of a write to an element of a map leaves every
\* truth state as it was; the visit of a write whose target is resolved to
\* a map the registry leaves out changes neither; and no visit removes a
\* record or lowers its count of proven writes.
C24_SeparationOfEffects ==
    [][pc' = pc + 1 =>
          LET t == file[pc + 1].Lhs[1] IN
          /\ t.kind = "ident" => results' = results
          /\ t.kind = "index" => boolValues' = boolValues
          /\ t.kind = "index" /\ t.obj = "imap" =>
                results' = results /\ boolValues' = boolValues
          /\ \A m \in Objects :
                results[m].present =>
                    /\ results'[m].present
                    /\ results'[m].trueCount >= results[m].trueCount]_vars

\* the flag was declared true, written to the field map and then assigned
\* false: the write is still counted as proven and the map not disproved
C24_Witness ==
    /\ pc = 3
    /\ file[1] = Assign(TokDefine, <<Ident("flag", TRUE)>>, <<Lit(TRUE)>>, FALSE)
    /\ file[2] = Assign(TokAssign, <<Index("fset", "s.")>>, <<Ident("flag", FALSE)>>, FALSE)
    /\ file[3] = Assign(TokAssign, <<Ident("flag", FALSE)>>, <<Lit(FALSE)>>, FALSE)
    /\ boolValues["flag"] = truthNotAlwaysTrue
    /\ results["fset"].trueCount = 1 /\ results["fset"].onlyTrue

\* the paths of the nodes of the tree at and below the node of path p
RECURSIVE PathsBelow(_)
PathsBelow(p) ==
    {p} \cup UNION {PathsBelow(Append(p, i)) : i \in 1..Len(Kids(NodeAt(p)))}

\* C25 (ancestor stack): between two calls of the callback the stack holds
\* the nodes being walked, from the file down, each the syntactic parent of
\* the next; right after the callback is called with a node that node is on
\* top; no node is visited twice; and when the walk has ended the stack is
\* empty and every node of the file has been visited.
C25_AncestorStack ==
    /\ [](/\ Len(stack) = Len(walk)
          /\ \A i \in 1..Len(stack) :
                /\ stack[i] = walk[i].path
                /\ Len(stack[i]) = i - 1
                /\ i > 1 => SubSeq(stack[i], 1, i - 2) = stack[i - 1]
          /\ \A i, j \in 1..Len(seen) : seen[i] = seen[j] => i = j
          /\ walk = <<>> /\ seen # <<>> =>
                /\ stack = <<>>
                /\ {seen[i] : i \in 1..Len(seen)} = PathsBelow(<<>>))
    /\ [][Len(seen') = Len(seen) + 1 =>
             /\ stack' = Append(stack, seen'[Len(seen')])
             /\ stack'[Len(stack')] = seen'[Len(seen')]]_vars

\* the literal in parentheses of the second statement is being visited:
\* under it on the stack are the parentheses, the statement and the file
C25_Witness ==
    /\ Len(stack) >= 4
    /\ stack[2] = <<2>>
    /\ NodeAt(stack[Len(stack)]).cls = "expr"
    /\ NodeAt(stack[Len(stack)]).n.kind = "complit"
    /\ NodeAt(stack[Len(stack)]).n.parens = 0
    /\ NodeAt(stack[Len(stack) - 1]).n.parens = 1

main_exited == cmd.at = "exit"

\* C26 as stated (CLI exit policy): when main has exited, every expanded
\* target was inspected, totalIssues is the sum of the counts the targets
\* returned, the status is non-zero exactly when a target returned an
\* error or the sum is positive, and with neither the status is zero and
\* no summary line was written.
C26_ExitPolicy ==
    main_exited =>
        /\ cmd.inspected = targets
        /\ cmd.totalIssues = cmd.sum
        /\ (cmd.status # 0) <=> (cmd.errAt # 0 \/ cmd.sum > 0)
        /\ (cmd.errAt = 0 /\ cmd.sum = 0) => (cmd.status = 0 /\ ~cmd.summary)

\* C26 amended (CLI exit policy): while every write succeeds main inspects
\* the targets in order, whatever the earlier ones returned, and keeps
\* the sum of their counts.  When it has exited: if expandTargets failed,
\* nothing was inspected and the status is 1; if a write failed the status
\* is 2; otherwise every target was inspected, the status is 1 when a
\* target returned an error or the sum of the counts is positive and 0
\* when not, and the summary line was written exactly when the sum is
\* positive.
C26_ExitPolicyWritten ==
    /\ cmd.at = "loop" =>
          /\ cmd.inspected = SubSeq(targets, 1, cmd.i - 1)
          /\ cmd.totalIssues = cmd.sum
          /\ cmd.hadError = (cmd.errAt # 0)
    /\ main_exited =>
          /\ ~cmd.written => cmd.status = 2
          /\ (cmd.expandErr /\ cmd.written) =>
                (cmd.status = 1 /\ cmd.inspected = <<>> /\ ~cmd.summary)
          /\ (~cmd.expandErr /\ cmd.written) =>
                /\ cmd.inspected = targets
                /\ cmd.totalIssues = cmd.sum
                /\ cmd.status = (IF cmd.errAt # 0 \/ cmd.sum > 0 THEN 1 ELSE 0)
                /\ cmd.summary = (cmd.sum > 0)

\* main has exited after the first of several targets returned an error
\* and a later one returned diagnostics
C26_Witness ==
    /\ main_exited /\ cmd.written /\ ~cmd.expandErr
    /\ Len(targets) > 1
    /\ cmd.errAt = 1
    /\ cmd.inspected = targets
    /\ cmd.sum > 0
    /\ cmd.status = 1
    /\ cmd.summary

Elems(s) == {s[i] : i \in DOMAIN s}

\* the directories a pattern matches
MatchSet(pattern) ==
    IF walkRoot(pattern) \in Dirs
    THEN {d \in Elems(WalkFrom(walkRoot(pattern))) : Matched(compilePattern(pattern), d)}
    ELSE {}

\* the paths of S in the order of Go strings
SortedSeq(S) ==
    [i \in 1..Cardinality(S) |->
        CHOOSE d \in S : Cardinality({e \in S : Rank(e) < Rank(d)}) = i - 1]

\* every expanded target of the arguments, cleaned, in the order of the
\* arguments, with its repetitions
RECURSIVE Expanded(_)
Expanded(as) ==
    IF as = <<>> THEN <<>>
    ELSE LET one == IF IsPattern(Head(as)) THEN SortedSeq(MatchSet(Head(as)))
                    ELSE <<Head(as)>>
         IN  [i \in DOMAIN one |-> Clean(one[i])] \o Expanded(Tail(as))

FirstAt(s, x) == CHOOSE i \in DOMAIN s : s[i] = x /\ \A j \in 1..(i - 1) : s[j] # x

\* C27 (expandTargets): when expandTargets has returned to main, with no
\* argument the targets are exactly "."; if an argument is a pattern
\* that matches no directory the call failed and there are no targets;
\* otherwise the targets are the cleaned expanded targets of the arguments
\* (the directories of a pattern in sorted order), each once, in the order
\* of their first occurrence.
C27_ExpandTargets ==
    cmd.at \in {"loop", "exit"} =>
        LET all == Expanded(osArgs)
            fails == \E i \in DOMAIN osArgs :
                        IsPattern(osArgs[i]) /\ MatchSet(osArgs[i]) = {}
        IN  /\ osArgs = <<>> => (~cmd.expandErr /\ targets = <<".">>)
            /\ fails => (cmd.expandErr /\ targets = <<>>)
            /\ (osArgs # <<>> /\ ~fails) =>
                  /\ ~cmd.expandErr
                  /\ Elems(targets) = Elems(all)
                  /\ \A i, j \in DOMAIN targets :
                        i < j => /\ targets[i] # targets[j]
                                 /\ FirstAt(all, targets[i]) < FirstAt(all, targets[j])

\* expandTargets has returned the targets of an uncleaned path followed by
\* a pattern that matches the path again and whose directories the walk
\* finds in another order than the sorted one
C27_Witness ==
    /\ cmd.at = "loop"
    /\ osArgs = <<"./a", "./...">>
    /\ targets = <<"a", ".", "a-b", "a/x", "b">>

====
